---- MODULE Spec2Model ----
(***************************************************************************)
(* Model of the money-app account-details view (AccountDetailsModal) and   *)
(* of the get_account_details route it talks to.                           *)
(*                                                                         *)
(* Time.  A JavaScript Date is modelled as an instant counted in whole     *)
(* hours since 1970-01-01T00:00Z.  A date string 'YYYY-MM-DD' is modelled  *)
(* as the number of the civil day it names (days since 1970-01-01).  The   *)
(* browser's time zone is a fixed offset tz (hours east of UTC); daylight  *)
(* saving changes are not modelled.  Amounts are integers (cents).         *)
(*                                                                         *)
(* Environment.  The clock does not advance during a behaviour, the route  *)
(* runs with the browser's clock and zone, and the transactions held       *)
(* upstream do not change.  A call of fetchData is kept as the values of   *)
(* the render that made it (range, custom dates, earliestKnownDate); its   *)
(* response is computed when it is handled.                                *)
(*                                                                         *)
(* SpecRecon checks calculateBalanceHistory on its own, on arguments drawn *)
(* in the initial state; Spec is the view with its requests in flight.     *)
(***************************************************************************)
EXTENDS Integers, Sequences, FiniteSets, TLC

VARIABLES
    now,                \* the instant "new Date()" returns (fixed during a behaviour)
    tz,                 \* the browser's offset from UTC, in hours
    selectedRange,      \* useState<TimeRange>
    customStart,        \* useState<string>, a date string
    customEnd,          \* useState<string>, a date string
    balanceHistory,     \* useState<BalanceHistoryPoint[]>
    isOpen,             \* prop isOpen (Dashboard: !!selectedAccountId)
    accountId,          \* prop accountId (Dashboard: selectedAccountId)
    loading,            \* useState(true)
    error,              \* useState<string | null>
    data,               \* useState<AccountData | null>
    dateError,          \* useState<string | null>
    earliestKnownDate,  \* useState<string | null>, the boundary estimate
    inflight,           \* calls of fetchData waiting for their response
    upstream,           \* the transactions the aggregation API holds, per account
    processed,          \* the request and response fetchData handled last
    fetchCount,         \* calls of fetchData made so far
    reconArgs,          \* arguments of the pending / last calculateBalanceHistory call
    reconDone,          \* TRUE once calculateBalanceHistory has run on reconArgs
    previousRun,        \* the transaction list and result of the run before the last
    saSortedTransactions, \* SpendingAnalysis: sortedTransactions, the filtered list
    chartTimePeriod,    \* SpendingAnalysis: useState('week')
    chartGroupBy,       \* SpendingAnalysis: useState('category')
    chartData,          \* SpendingAnalysis: useMemo, the rows of the stacked bar chart
    gtSource,           \* get_transactions: how the upstream answers the page requests
    gtAllTransactions,  \* get_transactions: allTransactions
    gtHasMore,          \* get_transactions: hasMore
    gtOffset,           \* get_transactions: offset
    gtPageLog,          \* get_transactions: the page requests made, as the upstream saw them
    gtResponse,         \* get_transactions: the response returned, once the handler is done
    saSelectedAccountIds, \* SpendingAnalysis: selectedAccountIds
    saSelectedRange,    \* SpendingAnalysis: selectedRange
    saCustomStart,      \* SpendingAnalysis: customStart
    saCustomEnd,        \* SpendingAnalysis: customEnd
    saDateError,        \* SpendingAnalysis: dateError, the only message the component holds
    saLoading,          \* SpendingAnalysis: loading
    saTransactions,     \* SpendingAnalysis: transactions
    saInflight,         \* SpendingAnalysis: calls of fetchTransactions awaiting Promise.all
    saFetchCount,       \* SpendingAnalysis: calls of fetchTransactions that issued requests
    accessTokens,       \* Dashboard: useState<string[]>
    allAccounts,        \* Dashboard: useState<any[]>, each account with its access_token
    institutions,       \* Dashboard: useState<Record<string, {name}>>
    dashLoading,        \* Dashboard: loading
    dashError,          \* Dashboard: error
    removingToken,      \* Dashboard: removingToken
    storedTokens,       \* localStorage['plaid_access_tokens']
    dashInflight,       \* Dashboard: the asynchronous operations awaiting their response
    plaidItems,         \* the items (tokens) the aggregation API holds as valid
    revokedItems,       \* the items the aggregation API has revoked
    opCount,            \* Dashboard: operations the user has started
    statementFile,        \* the statement file the user has at hand
    impOpen,              \* ImportTransactionsDialog: open
    impAccountName,       \* ImportTransactionsDialog: accountName
    impInstitutionName,   \* ImportTransactionsDialog: institutionName
    impFile,              \* ImportTransactionsDialog: file
    impError,             \* ImportTransactionsDialog: error
    impLoading,           \* ImportTransactionsDialog: loading
    impPending,           \* ImportTransactionsDialog: calls of handleImport awaiting the parser
    importedAccounts,     \* SpendingAnalysis: importedAccounts
    importedTransactions, \* SpendingAnalysis: importedTransactions
    csvContent,           \* handleExportCSV: csvContent, the data rows of the file downloaded last
    gadAccessTokens,      \* get_account_details: access_tokens of the request
    gadAccountId,         \* get_account_details: account_id of the request
    gadAnswers,           \* get_account_details: how the upstream answers accountsGet, per token
    gadNext,              \* get_account_details: the position of the for loop in access_tokens
    gadFoundToken,        \* get_account_details: foundToken
    gadLog,               \* get_account_details: the upstream requests made, in order
    gadResponse,          \* get_account_details: the response returned, once the handler is done
    spendingData,         \* AccountDetailsModal: useMemo spendingData, as last computed
    rsAccount,            \* get_account_details: the account of the response
    rsTransactions,       \* get_account_details: the transactions of the response
    rsResult,             \* fetchData: result.transactions after the re-signing, <<>> before
    cashAndInvestmentsBalance,\* Dashboard: the value under Total Cash & Investments
    totalBalance          \* Dashboard: the value under Total Net Worth

envVars   == <<now, tz, upstream>>
modalVars == <<isOpen, accountId, loading, error, data, dateError,
               earliestKnownDate, inflight, processed, fetchCount>>

vars == <<now, tz, selectedRange, customStart, customEnd, balanceHistory,
          isOpen, accountId, loading, error, data, dateError,
          earliestKnownDate, inflight, upstream, processed, fetchCount,
          reconArgs, reconDone, previousRun,
          saSortedTransactions, chartTimePeriod, chartGroupBy, chartData,
          gtSource, gtAllTransactions, gtHasMore, gtOffset, gtPageLog, gtResponse,
          saSelectedAccountIds, saSelectedRange, saCustomStart, saCustomEnd,
          saDateError, saLoading, saTransactions, saInflight, saFetchCount,
          accessTokens, allAccounts, institutions, dashLoading, dashError,
          removingToken, storedTokens, dashInflight, plaidItems, revokedItems, opCount,
          statementFile, impOpen, impAccountName, impInstitutionName, impFile, impError, impLoading, impPending, importedAccounts, importedTransactions,
          csvContent,
          gadAccessTokens, gadAccountId, gadAnswers, gadNext, gadFoundToken, gadLog, gadResponse,
          spendingData,
          rsAccount, rsTransactions, rsResult,
          cashAndInvestmentsBalance, totalBalance>>

\* the state of the account-details view
viewVars == <<selectedRange, customStart, customEnd, balanceHistory, modalVars,
              reconArgs, reconDone>>

\* the chart of the spending analysis
chartVars == <<saSortedTransactions, chartTimePeriod, chartGroupBy, chartData>>

\* a run of the get_transactions handler
pagesVars == <<gtSource, gtAllTransactions, gtHasMore, gtOffset, gtPageLog, gtResponse>>

\* the spending analysis and its calls of fetchTransactions
spendingVars == <<saSelectedAccountIds, saSelectedRange, saCustomStart, saCustomEnd,
                  saDateError, saLoading, saTransactions, saInflight, saFetchCount>>

\* the dashboard, the local storage, and the items upstream
dashVars == <<accessTokens, allAccounts, institutions, dashLoading, dashError,
              removingToken, storedTokens, dashInflight, plaidItems, revokedItems, opCount>>

\* the components modelled after the dashboard
\* the import dialog and what the spending analysis holds of imports
importVars == <<statementFile, impOpen, impAccountName, impInstitutionName, impFile, impError, impLoading, impPending, importedAccounts, importedTransactions>>

\* the file the account-details view hands to the browser as a download
exportVars == <<csvContent>>

\* a run of the get_account_details handler up to its response
lookupVars == <<gadAccessTokens, gadAccountId, gadAnswers, gadNext, gadFoundToken, gadLog, gadResponse>>

\* the pie-style summary of the account-details view
pieVars == <<spendingData>>

\* the re-signing of the transactions of a response
resignVars == <<rsAccount, rsTransactions, rsResult>>

\* the totals at the head of the dashboard
worthVars == <<cashAndInvestmentsBalance, totalBalance>>

laterVars == <<importVars, exportVars, lookupVars, pieVars, resignVars, worthVars>>

\* the state of the other components
componentVars == <<chartVars, pagesVars, spendingVars, dashVars, laterVars>>

\* the state outside the account-details view
appVars == <<previousRun, componentVars>>

\* the state outside the chart, and outside a run of get_transactions
chartOthers == <<envVars, viewVars, previousRun, pagesVars, spendingVars, dashVars, laterVars>>
pagesOthers == <<envVars, viewVars, previousRun, chartVars, spendingVars, dashVars, laterVars>>
spendingOthers == <<envVars, viewVars, previousRun, chartVars, pagesVars, dashVars, laterVars>>
dashOthers == <<envVars, viewVars, previousRun, chartVars, pagesVars, spendingVars, laterVars>>

\* the state outside each of the later components
importOthers == <<envVars, viewVars, previousRun, chartVars, pagesVars, dashVars, exportVars, lookupVars, pieVars, resignVars, worthVars>>
exportOthers == <<previousRun, chartVars, pagesVars, spendingVars, dashVars, importVars, lookupVars, pieVars, resignVars, worthVars>>
lookupOthers == <<envVars, viewVars, previousRun, chartVars, pagesVars, spendingVars, dashVars, importVars, exportVars, pieVars, resignVars, worthVars>>
pieOthers == <<previousRun, chartVars, pagesVars, spendingVars, dashVars, importVars, exportVars, lookupVars, resignVars, worthVars>>
resignOthers == <<envVars, viewVars, previousRun, chartVars, pagesVars, spendingVars, dashVars, importVars, exportVars, lookupVars, pieVars, worthVars>>
worthOthers == <<envVars, viewVars, previousRun, chartVars, pagesVars, spendingVars, importVars, exportVars, lookupVars, pieVars, resignVars>>

-----------------------------------------------------------------------------
(* Bounds of the model *)

MaxTx == 2                       \* longest transaction list handed to the reconstructor
MaxInflight == 2                 \* most calls of fetchData in flight at once
MaxFetches == 3                  \* most calls of fetchData in one behaviour
MaxOps == 2                      \* most links, removals and refreshes started in one behaviour

-----------------------------------------------------------------------------
(* The Date object of the JavaScript runtime *)

NullDate == -1                   \* null in a "string | null" date
NullStr  == "null"               \* null in a "string | null" text or id
NullData == [account_id |-> NullStr]      \* null in "AccountData | null"

MaxOf(a, b) == IF a >= b THEN a ELSE b     \* Math.max
MinOf(a, b) == IF a <= b THEN a ELSE b     \* Math.min

HoursPerDay == 24

\* civil date -> day number (proleptic Gregorian calendar), month in 1..12
DaysFromCivil(y, m, d) ==
    LET yy  == IF m <= 2 THEN y - 1 ELSE y
        era == yy \div 400
        yoe == yy - era * 400
        mp  == (m + 9) % 12
        doy == (153 * mp + 2) \div 5 + d - 1
        doe == yoe * 365 + yoe \div 4 - yoe \div 100 + doy
    IN  era * 146097 + doe - 719468

\* day number -> civil date
CivilFromDays(z) ==
    LET z2  == z + 719468
        era == z2 \div 146097
        doe == z2 - era * 146097
        yoe == (doe - doe \div 1460 + doe \div 36524 - doe \div 146096) \div 365
        doy == doe - (365 * yoe + yoe \div 4 - yoe \div 100)
        mp  == (5 * doy + 2) \div 153
        d   == doy - (153 * mp + 2) \div 5 + 1
        m   == IF mp < 10 THEN mp + 3 ELSE mp - 9
        y   == yoe + era * 400
    IN  [year |-> IF m <= 2 THEN y + 1 ELSE y, month |-> m, day |-> d]

\* ECMAScript MakeDay: month index may lie outside 0..11, the day of the
\* month outside the month; both overflow into the neighbouring months
MakeDay(year, monthIndex, date) ==
    DaysFromCivil(year + monthIndex \div 12, (monthIndex % 12) + 1, 1) + date - 1

LocalDay(t)  == (t + tz) \div HoursPerDay      \* local calendar day of an instant
LocalHour(t) == (t + tz) % HoursPerDay         \* getHours()
LocalTime(day, hour) == day * HoursPerDay + hour - tz

getDate(t)     == CivilFromDays(LocalDay(t)).day
getMonth(t)    == CivilFromDays(LocalDay(t)).month - 1
getFullYear(t) == CivilFromDays(LocalDay(t)).year

setDate(t, n)  == LocalTime(MakeDay(getFullYear(t), getMonth(t), n), LocalHour(t))
setMonth(t, k) == LocalTime(MakeDay(getFullYear(t), k, getDate(t)), LocalHour(t))
setMonthDate(t, k, n) == LocalTime(MakeDay(getFullYear(t), k, n), LocalHour(t))
setFullYear(t, y) == LocalTime(MakeDay(y, getMonth(t), getDate(t)), LocalHour(t))
setHours(t, h) == LocalTime(LocalDay(t), h)

\* new Date('YYYY-MM-DD'): a date-only string is parsed as UTC midnight
ParseDateUTC(dateStr)   == dateStr * HoursPerDay
\* new Date(y, m - 1, d) on the split fields: local midnight
ParseDateLocal(dateStr) == LocalTime(dateStr, 0)
\* date.toISOString().split('T')[0]: the UTC calendar day of the instant
toISODate(t) == t \div HoursPerDay

\* formatDateToLocalYMD
formatDateToLocalYMD(t) == LocalDay(t)

Today == LocalDay(now)

-----------------------------------------------------------------------------
(* getDateRange *)

TimeRanges == {"1D", "1W", "30D", "3M", "6M", "1Y", "2Y", "YTD", "MAX", "CUSTOM"}

getDateRangeOf(range, cStart, cEnd) ==
    LET end   == now
        start == now
    IN  CASE range = "CUSTOM" ->
               [start |-> LocalTime(cStart, 0), end |-> LocalTime(cEnd, 23)]
          [] range = "1D"  -> [start |-> setDate(start, getDate(end) - 1), end |-> end]
          [] range = "1W"  -> [start |-> setDate(start, getDate(end) - 7), end |-> end]
          [] range = "30D" -> [start |-> setDate(start, getDate(end) - 30), end |-> end]
          [] range = "3M"  -> [start |-> setMonth(start, getMonth(end) - 3), end |-> end]
          [] range = "6M"  -> [start |-> setMonth(start, getMonth(end) - 6), end |-> end]
          [] range = "1Y"  -> [start |-> setFullYear(start, getFullYear(end) - 1), end |-> end]
          [] range = "2Y"  -> [start |-> setFullYear(start, getFullYear(end) - 2), end |-> end]
          [] range = "YTD" -> [start |-> setMonthDate(start, 0, 1), end |-> end]
          [] range = "MAX" -> [start |-> setFullYear(start, getFullYear(end) - 10), end |-> end]

getDateRange(range) == getDateRangeOf(range, customStart, customEnd)

-----------------------------------------------------------------------------
(* calculateBalanceHistory *)

MAX_DAYS == 365 * 10

RECURSIVE SortDescFrom(_, _)
SortDescFrom(transactions, dates) ==
    IF dates = {} THEN <<>>
    ELSE LET latest == CHOOSE d \in dates : \A e \in dates : ParseDateUTC(e) <= ParseDateUTC(d)
         IN  SelectSeq(transactions, LAMBDA tx : tx.date = latest)
                \o SortDescFrom(transactions, dates \ {latest})

\* the list taken in the order it arrived, the sort left out: a plausible slip
SortByDateDescSkipped(transactions) == transactions

\* [...transactions].sort((a, b) => new Date(b.date) - new Date(a.date)):
\* newest first, transactions of one day keep their order (the sort is stable)
SortByDateDesc(transactions) ==
    SortDescFrom(transactions, {transactions[i].date : i \in 1..Len(transactions)})

RECURSIVE SumAmounts(_)
SumAmounts(transactions) ==
    IF transactions = <<>> THEN 0
    ELSE Head(transactions).amount + SumAmounts(Tail(transactions))

\* txMap[tx.date] = tx.amount, the last transaction of a day overwriting the
\* earlier ones: a plausible slip
BuildTxMapOverwrite(sortedTransactions) ==
    [d \in {sortedTransactions[i].date : i \in 1..Len(sortedTransactions)} |->
        LET ofDay == SelectSeq(sortedTransactions, LAMBDA tx : tx.date = d)
        IN  ofDay[Len(ofDay)].amount]

\* txMap[tx.date] = (txMap[tx.date] || 0) + tx.amount
BuildTxMap(sortedTransactions) ==
    [d \in {sortedTransactions[i].date : i \in 1..Len(sortedTransactions)} |->
        SumAmounts(SelectSeq(sortedTransactions, LAMBDA tx : tx.date = d))]

\* txMap[dateStr] || 0
TxMapGet(txMap, dateStr) == IF dateStr \in DOMAIN txMap THEN txMap[dateStr] ELSE 0

\* tempBalance += change, with the sign turned: a plausible slip
UndoDaySubtract(tempBalance, change) == tempBalance - change

\* tempBalance += change: undoing a day's net amount gives the balance at the
\* end of the day before
UndoDay(tempBalance, change) == tempBalance + change

\* the point pushed after the day's transactions were undone: a plausible slip
EmittedBalanceAfterUndo(tempBalance, change) == tempBalance + change

\* balance: tempBalance, the running balance before the day is undone
EmittedBalance(tempBalance, change) == tempBalance

\* one evaluation of the while loop: its guard, the break, and its body
WalkStep(s, txMap, startDate, endDate, cutoffTime) ==
    IF s.done THEN s
    ELSE IF ~(s.loopDate >= startDate /\ s.safetyCounter < MAX_DAYS)
         THEN [s EXCEPT !.done = TRUE]
    ELSE IF cutoffTime # NullDate /\ s.loopDate < cutoffTime
         THEN [s EXCEPT !.done = TRUE]
    ELSE LET dateStr == toISODate(s.loopDate)
             change  == TxMapGet(txMap, dateStr)
         IN  [loopDate      |-> setDate(s.loopDate, getDate(s.loopDate) - 1),
              tempBalance   |-> UndoDay(s.tempBalance, change),
              safetyCounter |-> s.safetyCounter + 1,
              historyPoints |-> IF s.loopDate <= endDate
                                THEN <<[date |-> dateStr,
                                        balance |-> EmittedBalance(s.tempBalance, change)]>>
                                        \o s.historyPoints
                                ELSE s.historyPoints,
              done          |-> FALSE]

\* k evaluations of the loop, one after the other
RECURSIVE WalkLoop(_, _, _, _, _, _)
WalkLoop(k, s, txMap, startDate, endDate, cutoffTime) ==
    IF k = 0 THEN s
    ELSE IF k = 1 THEN WalkStep(s, txMap, startDate, endDate, cutoffTime)
    ELSE LET half == WalkLoop(k \div 2, s, txMap, startDate, endDate, cutoffTime)
         IN  IF half.done THEN half
             ELSE WalkLoop(k - (k \div 2), half, txMap, startDate, endDate, cutoffTime)

\* the series calculateBalanceHistory hands to setBalanceHistory, for the
\* range and custom dates of the closure it runs in
BalanceHistoryOf(currentBalance, transactions, knownEarliestDate, range, cStart, cEnd) ==
    LET sortedTransactions == SortByDateDesc(transactions)
        txMap == BuildTxMap(sortedTransactions)
        earliestTxTime ==
            IF Len(sortedTransactions) > 0
            THEN ParseDateLocal(sortedTransactions[Len(sortedTransactions)].date)
            ELSE NullDate
        cutoffTime ==
            IF knownEarliestDate # NullDate
            THEN ParseDateLocal(knownEarliestDate)
            ELSE earliestTxTime
        r == getDateRangeOf(range, cStart, cEnd)
        startDate == setHours(r.start, 0)
        endDate   == setHours(r.end, 0)
        s0 == [loopDate      |-> setHours(now, 0),
               tempBalance   |-> currentBalance,
               safetyCounter |-> 0,
               historyPoints |-> <<>>,
               done          |-> FALSE]
    IN  WalkLoop(MAX_DAYS + 1, s0, txMap, startDate, endDate, cutoffTime).historyPoints

calculateBalanceHistory(currentBalance, transactions, knownEarliestDate) ==
    balanceHistory' = BalanceHistoryOf(currentBalance, transactions, knownEarliestDate,
                                       selectedRange, customStart, customEnd)

-----------------------------------------------------------------------------
(* The reconstructor on its own: the inputs are drawn in the initial state *)

Todays    == {DaysFromCivil(2024, 5, 31), DaysFromCivil(2025, 2, 10)}
TzOffsets == {-5, 0, 9}
NowHours  == {1, 22}

Balances     == {100000}
TxAges       == {0, 1, 3}            \* a transaction is dated today - age
TxAmounts    == {5000, -2000}
BoundaryAges == {0, 2, 5, 45}        \* a known boundary is today - age
CustomStartAges == {6, 2}
CustomEndAges   == {2, 0}

SeqsUpTo(S, n) == UNION {[1..k -> S] : k \in 0..n}

\* no response yet
NoResponse == [status |-> 0]

\* the chart with nothing to show
InitChartIdle ==
    /\ saSortedTransactions = <<>>
    /\ chartTimePeriod = "week"
    /\ chartGroupBy = "category"
    /\ chartData = <<>>

\* no request to get_transactions is being served
InitPagesIdle ==
    /\ gtSource = [kind |-> "stable", n |-> 0]
    /\ gtAllTransactions = <<>>
    /\ gtHasMore = FALSE
    /\ gtOffset = 0
    /\ gtPageLog = <<>>
    /\ gtResponse = NoResponse

\* the spending analysis as it is after construction
InitSpendingIdle ==
    /\ saSelectedAccountIds = {}
    /\ saSelectedRange = "30D"
    /\ saCustomStart = formatDateToLocalYMD(setDate(now, getDate(now) - 30))
    /\ saCustomEnd = formatDateToLocalYMD(now)
    /\ saDateError = NullStr
    /\ saLoading = FALSE
    /\ saTransactions = <<>>
    /\ saInflight = {}
    /\ saFetchCount = 0

\* {}: a record without entries
EmptyRecord == [key \in {} |-> NullStr]

\* the dashboard with nothing linked and nothing stored
InitDashIdle ==
    /\ accessTokens = <<>>
    /\ allAccounts = <<>>
    /\ institutions = EmptyRecord
    /\ dashLoading = FALSE
    /\ dashError = NullStr
    /\ removingToken = NullStr
    /\ storedTokens = [present |-> FALSE, tokens |-> <<>>]
    /\ dashInflight = {}
    /\ plaidItems = {}
    /\ revokedItems = {}
    /\ opCount = 0

\* file (null), and error (null) of the import dialog
NoFile == [kind |-> "none", columns |-> {}, rows |-> <<>>]
NoError == [message |-> NullStr, row |-> 0]

\* the later components as they are when nothing has been done in them
InitImportIdle ==
    /\ statementFile = NoFile
    /\ impOpen = FALSE
    /\ impAccountName = ""
    /\ impInstitutionName = ""
    /\ impFile = NoFile
    /\ impError = NoError
    /\ impLoading = FALSE
    /\ impPending = {}
    /\ importedAccounts = <<>>
    /\ importedTransactions = <<>>

InitExportIdle ==
    /\ csvContent = <<>>

InitLookupIdle ==
    /\ gadAccessTokens = <<>>
    /\ gadAccountId = NullStr
    /\ gadAnswers = EmptyRecord
    /\ gadNext = 1
    /\ gadFoundToken = NullStr
    /\ gadLog = <<>>
    /\ gadResponse = NoResponse

InitPieIdle ==
    /\ spendingData = <<>>

InitResignIdle ==
    /\ rsAccount = NullData
    /\ rsTransactions = <<>>
    /\ rsResult = <<>>

InitWorthIdle ==
    /\ cashAndInvestmentsBalance = 0
    /\ totalBalance = 0

InitLaterIdle ==
    /\ InitImportIdle
    /\ InitExportIdle
    /\ InitLookupIdle
    /\ InitPieIdle
    /\ InitResignIdle
    /\ InitWorthIdle

\* the other components as they are when nothing has been done in them
InitComponents ==
    /\ InitChartIdle
    /\ InitPagesIdle
    /\ InitSpendingIdle
    /\ InitDashIdle
    /\ InitLaterIdle

TxPool(today) == [date : {today - a : a \in TxAges}, amount : TxAmounts]

InitEnv ==
    /\ tz \in TzOffsets
    /\ \E today \in Todays, hour \in NowHours : now = today * HoursPerDay + hour - tz

InitRecon ==
    /\ InitEnv
    /\ selectedRange \in TimeRanges
    /\ IF selectedRange = "CUSTOM"
       THEN /\ customStart \in {Today - a : a \in CustomStartAges}
            /\ customEnd \in {Today - a : a \in CustomEndAges}
       ELSE /\ customStart = Today - 30
            /\ customEnd = Today
    /\ balanceHistory = <<>>
    /\ isOpen = FALSE
    /\ accountId = NullStr
    /\ loading = TRUE
    /\ error = NullStr
    /\ data = NullData
    /\ dateError = NullStr
    /\ earliestKnownDate = NullDate
    /\ inflight = {}
    /\ upstream = <<>>
    /\ processed = <<>>
    /\ fetchCount = 0
    /\ reconArgs \in [currentBalance : Balances,
                      transactions : SeqsUpTo(TxPool(Today), MaxTx),
                      knownEarliestDate : {NullDate} \cup {Today - a : a \in BoundaryAges}]
    /\ reconDone = FALSE
    /\ previousRun = <<>>
    /\ InitComponents

Reconstruct ==
    /\ ~reconDone
    /\ calculateBalanceHistory(reconArgs.currentBalance, reconArgs.transactions,
                               reconArgs.knownEarliestDate)
    /\ reconDone' = TRUE
    /\ UNCHANGED <<envVars, appVars, modalVars, selectedRange, customStart, customEnd, reconArgs>>

NextRecon == Reconstruct

SpecRecon == InitRecon /\ [][NextRecon]_vars

-----------------------------------------------------------------------------
(* The reconstructor run a second time, on the same transactions in another *)
(* order                                                                    *)

RerunRanges == {"1D", "1W", "30D", "CUSTOM"}

InitRerun ==
    /\ InitRecon
    /\ selectedRange \in RerunRanges

\* a second call of calculateBalanceHistory with the same balance, window and
\* boundary, the transaction list reordered by the permutation p
Rerun(p) ==
    /\ reconDone
    /\ previousRun = <<>>
    /\ LET reordered == [i \in 1..Len(reconArgs.transactions) |->
                            reconArgs.transactions[p[i]]]
       IN  /\ reconArgs' = [reconArgs EXCEPT !.transactions = reordered]
           /\ previousRun' = <<[transactions |-> reconArgs.transactions,
                                balanceHistory |-> balanceHistory]>>
           /\ calculateBalanceHistory(reconArgs.currentBalance, reordered,
                                      reconArgs.knownEarliestDate)
    /\ UNCHANGED <<envVars, modalVars, selectedRange, customStart, customEnd, reconDone,
                   componentVars>>

NextRerun ==
    \/ Reconstruct
    \/ \E p \in Permutations(1..Len(reconArgs.transactions)) : Rerun(p)

SpecRerun == InitRerun /\ [][NextRerun]_vars

-----------------------------------------------------------------------------
(* The aggregation API and the get_account_details route *)

Accounts == {"acc_A", "acc_B"}

CurrentBalance == 100000             \* balances.current of every account

\* account.type and account.subtype of the linked accounts
AccountType(account_id) == "depository"
AccountSubtype(account_id) == IF account_id = "acc_A" THEN "checking" ELSE "savings"

PageCount == 500                     \* count of the route's transactions query

\* transactionsGet: the transactions of the account dated within
\* [start_date, end_date], newest first, cut to count entries from offset
transactionsGet(account_id, start_date, end_date, count, offset) ==
    LET inWindow == SelectSeq(upstream[account_id],
                        LAMBDA tx : start_date <= tx.date /\ tx.date <= end_date)
    IN  [transactions |-> SubSeq(inWindow, offset + 1,
                                 MinOf(offset + count, Len(inWindow))),
         total_transactions |-> Len(inWindow)]

\* the earliest_transaction_date probe of the route; probeFails says whether
\* the query for the oldest transaction throws (the route then warns and
\* carries on without a date)
EarliestTransactionDate(account_id, include_earliest_date, probeFails) ==
    IF ~include_earliest_date THEN NullDate
    ELSE LET tenYearsAgo == setFullYear(now, getFullYear(now) - 10)
             fetchEndDate == now
             totalTx == transactionsGet(account_id, toISODate(tenYearsAgo),
                            toISODate(fetchEndDate), 1, 0).total_transactions
         IN  IF totalTx > 0
             THEN IF probeFails THEN NullDate
                  ELSE LET oldest == transactionsGet(account_id, toISODate(tenYearsAgo),
                                        toISODate(fetchEndDate), 1,
                                        MaxOf(0, totalTx - 1)).transactions
                       IN  IF Len(oldest) > 0 THEN oldest[1].date ELSE NullDate
             ELSE NullDate

\* the body of a 200 response of POST /api/get_account_details
AccountDetailsResponse(account_id, startDate, include_earliest_date, probeFails) ==
    LET fetchEndDate == now
        transactionsResponse == transactionsGet(account_id, toISODate(startDate),
                                    toISODate(fetchEndDate), PageCount, 0)
    IN  [account_id |-> account_id,
         type |-> AccountType(account_id),
         subtype |-> AccountSubtype(account_id),
         current |-> CurrentBalance,
         transactions |-> transactionsResponse.transactions,
         total_transactions |-> transactionsResponse.total_transactions,
         earliest_transaction_date |->
             EarliestTransactionDate(account_id, include_earliest_date, probeFails)]

-----------------------------------------------------------------------------
(* AccountDetailsModal *)

\* the ranges whose response may promote the oldest transaction to boundary
LargeRangesWith3M == {"3M", "6M", "1Y", "2Y", "YTD", "MAX"}

LargeRanges == {"6M", "1Y", "2Y", "YTD", "MAX"}

\* the date of sorted[0] of the ascending sort of the response's transactions
OldestTxDate(transactions) ==
    CHOOSE d \in {transactions[i].date : i \in 1..Len(transactions)} :
        \A i \in 1..Len(transactions) : ParseDateUTC(d) <= ParseDateUTC(transactions[i].date)

\* the fallback of fetchData for a response without earliest_transaction_date:
\* the new value of earliestKnownDate
FallbackBoundary(result, range, start, current) ==
    LET hasAllInWindow == Len(result.transactions) >= result.total_transactions
    IN  IF hasAllInWindow /\ Len(result.transactions) > 0
        THEN LET oldestTxDate == OldestTxDate(result.transactions)
                 oldestDate == setHours(ParseDateUTC(oldestTxDate), 0)
                 requestedStart == setHours(start, 0)
                 OneDay == HoursPerDay
             IN  IF range \in LargeRanges
                    /\ oldestDate > requestedStart + OneDay
                 THEN oldestTxDate
                 ELSE current
        ELSE current

\* setEarliestKnownDate as fetchData runs it on a response
NextEarliestKnownDate(result, range, start, current) ==
    IF result.earliest_transaction_date # NullDate
    THEN result.earliest_transaction_date
    ELSE FallbackBoundary(result, range, start, current)

\* isDisabled with the test limited to the windows that start within the
\* current year or half year: a plausible slip
isDisabledShortRanges(r) ==
    /\ earliestKnownDate # NullDate
    /\ r \in {"6M", "YTD"}
    /\ setHours(getDateRange(r).start, 0) < setHours(ParseDateUTC(earliestKnownDate), 0)

\* isDisabled of a range button
isDisabled(r) ==
    /\ earliestKnownDate # NullDate
    /\ r \in {"6M", "1Y", "2Y", "YTD"}
    /\ setHours(getDateRange(r).start, 0) < setHours(ParseDateUTC(earliestKnownDate), 0)

\* a call of fetchData: the values of the render it was created in
Request(acc, range, cStart, cEnd, ekd) ==
    [accountId |-> acc, selectedRange |-> range, customStart |-> cStart,
     customEnd |-> cEnd, earliestKnownDate |-> ekd]

\* the effect on [isOpen, accountId, selectedRange, customStart, customEnd],
\* run for the render with these values while the view is open
FetchEffect(acc, range, cStart, cEnd) ==
    /\ earliestKnownDate' = IF data.account_id # acc THEN NullDate ELSE earliestKnownDate
    /\ IF range = "CUSTOM" /\ cStart > cEnd
       THEN /\ dateError' = "Start date cannot be after end date"
            /\ UNCHANGED <<loading, error, data, inflight, fetchCount>>
       ELSE IF range = "CUSTOM" /\ (cStart > Today \/ cEnd > Today)
       THEN /\ dateError' = "Dates cannot be in the future"
            /\ UNCHANGED <<loading, error, data, inflight, fetchCount>>
       ELSE /\ dateError' = NullStr
            /\ loading' = TRUE
            /\ error' = NullStr
            /\ data' = IF data.account_id = acc THEN data ELSE NullData
            /\ Cardinality(inflight) < MaxInflight
            /\ fetchCount < MaxFetches
            /\ fetchCount' = fetchCount + 1
            /\ inflight' = inflight \cup {Request(acc, range, cStart, cEnd, earliestKnownDate)}

\* Dashboard: a click on an account sets selectedAccountId
OpenAccount(acc) ==
    /\ ~isOpen
    /\ isOpen' = TRUE
    /\ accountId' = acc
    /\ FetchEffect(acc, selectedRange, customStart, customEnd)
    /\ UNCHANGED <<envVars, appVars, selectedRange, customStart, customEnd, balanceHistory,
                   reconArgs, reconDone>>
    /\ processed' = <<>>

\* onClose, and the effect that resets the view when it closes
Close ==
    /\ isOpen
    /\ isOpen' = FALSE
    /\ accountId' = NullStr
    /\ selectedRange' = "30D"
    /\ customStart' = formatDateToLocalYMD(setDate(now, getDate(now) - 30))
    /\ customEnd' = formatDateToLocalYMD(now)
    /\ dateError' = NullStr
    /\ data' = NullData
    /\ balanceHistory' = <<>>
    /\ earliestKnownDate' = NullDate
    /\ processed' = <<>>
    /\ UNCHANGED <<envVars, appVars, loading, error, inflight, fetchCount, reconArgs, reconDone>>

\* a click on a range button that is shown and enabled
SelectRange(r) ==
    /\ isOpen
    /\ error = NullStr
    /\ ~((loading /\ data = NullData) \/ isDisabled(r))
    /\ r # selectedRange
    /\ selectedRange' = r
    /\ FetchEffect(accountId, r, customStart, customEnd)
    /\ UNCHANGED <<envVars, appVars, isOpen, accountId, customStart, customEnd, balanceHistory,
                   reconArgs, reconDone>>
    /\ processed' = <<>>

\* the Retry button of the error panel calls fetchData of the current render
Retry ==
    /\ isOpen
    /\ error # NullStr
    /\ Cardinality(inflight) < MaxInflight
    /\ fetchCount < MaxFetches
    /\ fetchCount' = fetchCount + 1
    /\ inflight' = inflight \cup {Request(accountId, selectedRange, customStart,
                                          customEnd, earliestKnownDate)}
    /\ UNCHANGED <<envVars, appVars, isOpen, accountId, loading, error, data, dateError,
                   earliestKnownDate, selectedRange, customStart, customEnd,
                   balanceHistory, reconArgs, reconDone>>
    /\ processed' = <<>>

\* fetchData after its await, on a response that is not ok
FetchDataFails(q) ==
    /\ q \in inflight
    /\ inflight' = inflight \ {q}
    /\ error' = "Failed to fetch account details"
    /\ loading' = FALSE
    /\ processed' = <<[request |-> q, ok |-> FALSE]>>
    /\ UNCHANGED <<envVars, appVars, isOpen, accountId, data, dateError, earliestKnownDate,
                   selectedRange, customStart, customEnd, balanceHistory,
                   fetchCount, reconArgs, reconDone>>

\* tx.name.toLowerCase().includes(...) of the two payment texts
IsAutomaticPayment(name) == name \in {"AUTOMATIC PAYMENT", "Automatic Payment - Thank You"}
IsPaymentThankYou(name) == name \in {"PAYMENT - THANK YOU", "Automatic Payment - Thank You"}

\* tx.amount > 0 && includes('automatic payment') || includes('payment - thank')
IsResigned(tx) ==
    (tx.amount > 0 /\ IsAutomaticPayment(tx.name)) \/ IsPaymentThankYou(tx.name)

\* the transactions of a response as fetchData keeps them: those of a credit
\* account that pass the test are negated
ReSign(type, subtype, transactions) ==
    IF type = "credit" \/ subtype = "credit card"
    THEN [i \in 1..Len(transactions) |->
             IF IsResigned(transactions[i])
             THEN [transactions[i] EXCEPT !.amount = 0 - transactions[i].amount]
             ELSE transactions[i]]
    ELSE transactions

\* result of fetchData after the re-signing
ReSignedResult(response) ==
    [response EXCEPT !.transactions =
        ReSign(response.type, response.subtype, response.transactions)]

\* the setters fetchData calls with its result
SetFromResult(q, start, result) ==
    LET knownEarliestDate ==
            IF result.earliest_transaction_date # NullDate
            THEN result.earliest_transaction_date
            ELSE q.earliestKnownDate
    IN  /\ data' = result
        /\ earliestKnownDate' =
               NextEarliestKnownDate(result, q.selectedRange, start, earliestKnownDate)
        /\ balanceHistory' =
               BalanceHistoryOf(result.current, result.transactions, knownEarliestDate,
                                q.selectedRange, q.customStart, q.customEnd)
        /\ processed' = <<[request |-> q, ok |-> TRUE,
                           earliest_transaction_date |-> result.earliest_transaction_date,
                           returned |-> Len(result.transactions),
                           total_transactions |-> result.total_transactions,
                           requestedStart |-> LocalDay(start)]>>
        /\ loading' = FALSE

\* what fetchData does with a 200 response: the state it sets
ResponseEffect(q, probeFails) ==
    LET start == getDateRangeOf(q.selectedRange, q.customStart, q.customEnd).start
    IN  SetFromResult(q, start,
            ReSignedResult(AccountDetailsResponse(q.accountId, start,
                               q.earliestKnownDate = NullDate, probeFails)))

\* the response of a call is dropped unless the view still shows the account
\* and the range the call was made for: what a guard against stale responses
\* would do
ApplyResponseIfCurrent(q, probeFails) ==
    IF /\ isOpen
       /\ q.accountId = accountId
       /\ q.selectedRange = selectedRange
       /\ q.customStart = customStart
       /\ q.customEnd = customEnd
    THEN ResponseEffect(q, probeFails)
    ELSE UNCHANGED <<data, earliestKnownDate, balanceHistory, processed, loading>>

\* fetchData applies the response it awaited, whatever the view shows by then
ApplyResponse(q, probeFails) == ResponseEffect(q, probeFails)

\* fetchData after its await, on a 200 response
FetchDataSucceeds(q, probeFails) ==
    /\ q \in inflight
    /\ inflight' = inflight \ {q}
    /\ ApplyResponse(q, probeFails)
    /\ UNCHANGED <<envVars, appVars, isOpen, accountId, error, dateError,
                   selectedRange, customStart, customEnd, fetchCount, reconArgs, reconDone>>

\* the range buttons the user clicks
ClickedRanges == {"30D", "3M", "YTD", "MAX", "CUSTOM"}

\* the transactions of an account upstream: ages in days, newest first
HistoryAges(acc) == IF acc = "acc_A" THEN <<3, 60>> ELSE <<3, 38>>

ModalToday == DaysFromCivil(2025, 2, 10)
ModalHour  == 12

Init ==
    /\ tz \in TzOffsets
    /\ now = ModalToday * HoursPerDay + ModalHour - tz
    /\ upstream = [acc \in Accounts |->
          [i \in 1..Len(HistoryAges(acc)) |->
              [date |-> ModalToday - HistoryAges(acc)[i], amount |-> 5000]]]
    /\ isOpen = FALSE
    /\ accountId = NullStr
    /\ loading = TRUE
    /\ error = NullStr
    /\ data = NullData
    /\ balanceHistory = <<>>
    /\ selectedRange = "30D"
    /\ customStart = formatDateToLocalYMD(setDate(now, getDate(now) - 30))
    /\ customEnd = formatDateToLocalYMD(now)
    /\ dateError = NullStr
    /\ earliestKnownDate = NullDate
    /\ inflight = {}
    /\ processed = <<>>
    /\ fetchCount = 0
    /\ reconArgs = [currentBalance |-> 0, transactions |-> <<>>,
                    knownEarliestDate |-> NullDate]
    /\ reconDone = FALSE
    /\ previousRun = <<>>
    /\ InitComponents

Next ==
    \/ \E acc \in Accounts : OpenAccount(acc)
    \/ Close
    \/ \E r \in ClickedRanges : SelectRange(r)
    \/ Retry
    \/ \E q \in inflight : FetchDataFails(q)
    \/ \E q \in inflight, probeFails \in BOOLEAN : FetchDataSucceeds(q, probeFails)

Spec == Init /\ [][Next]_vars

\* the view with the short ranges only, every call answered: the
\* specification for the order in which responses arrive
StaleRanges == {"1W", "30D"}

NextStale ==
    \/ \E acc \in Accounts : OpenAccount(acc)
    \/ Close
    \/ \E r \in StaleRanges : SelectRange(r)
    \/ \E q \in inflight, probeFails \in BOOLEAN : FetchDataSucceeds(q, probeFails)

SpecStale == Init /\ [][NextStale]_vars

-----------------------------------------------------------------------------
(* The view over an account whose oldest transaction of the last six months *)
(* lies 40 days after the start of the 6M window                            *)

ScenarioTodays == {DaysFromCivil(2025, 2, 10), DaysFromCivil(2025, 5, 23),
                   DaysFromCivil(2025, 11, 15)}

ScenarioGap == 40

\* the account the user looks at in this scenario
ScenarioAccount == "acc_B"

\* the transactions of an account upstream, newest first: three within the
\* 6M window, and one that is older than the window
ScenarioHistory ==
    LET start6M == LocalDay(getDateRangeOf("6M", NullDate, NullDate).start)
    IN  << [date |-> Today - 3, amount |-> 5000],
           [date |-> Today - 20, amount |-> 5000],
           [date |-> start6M + ScenarioGap, amount |-> 5000],
           [date |-> Today - 300, amount |-> 5000] >>

InitScenario ==
    /\ tz \in TzOffsets
    /\ \E today \in ScenarioTodays : now = today * HoursPerDay + ModalHour - tz
    /\ upstream = [acc \in Accounts |-> ScenarioHistory]
    /\ isOpen = FALSE
    /\ accountId = NullStr
    /\ loading = TRUE
    /\ error = NullStr
    /\ data = NullData
    /\ balanceHistory = <<>>
    /\ selectedRange = "30D"
    /\ customStart = formatDateToLocalYMD(setDate(now, getDate(now) - 30))
    /\ customEnd = formatDateToLocalYMD(now)
    /\ dateError = NullStr
    /\ earliestKnownDate = NullDate
    /\ inflight = {}
    /\ processed = <<>>
    /\ fetchCount = 0
    /\ reconArgs = [currentBalance |-> 0, transactions |-> <<>>,
                    knownEarliestDate |-> NullDate]
    /\ reconDone = FALSE
    /\ previousRun = <<>>
    /\ InitComponents

\* the range buttons the user clicks in this scenario
ScenarioRanges == {"30D", "6M", "YTD"}

NextScenario ==
    \/ OpenAccount(ScenarioAccount)
    \/ Close
    \/ \E r \in ScenarioRanges : SelectRange(r)
    \/ Retry
    \/ \E q \in inflight : FetchDataFails(q)
    \/ \E q \in inflight, probeFails \in BOOLEAN : FetchDataSucceeds(q, probeFails)

SpecScenario == InitScenario /\ [][NextScenario]_vars

-----------------------------------------------------------------------------
(* The view with its custom date inputs *)

\* the custom start input of the view (shown while CUSTOM is selected and no
\* error panel is up)
SetCustomStart(d) ==
    /\ isOpen
    /\ error = NullStr
    /\ selectedRange = "CUSTOM"
    /\ d # customStart
    /\ customStart' = d
    /\ FetchEffect(accountId, selectedRange, d, customEnd)
    /\ UNCHANGED <<envVars, appVars, isOpen, accountId, selectedRange, customEnd,
                   balanceHistory, reconArgs, reconDone>>
    /\ processed' = <<>>

\* the custom end input of the view
SetCustomEnd(d) ==
    /\ isOpen
    /\ error = NullStr
    /\ selectedRange = "CUSTOM"
    /\ d # customEnd
    /\ customEnd' = d
    /\ FetchEffect(accountId, selectedRange, customStart, d)
    /\ UNCHANGED <<envVars, appVars, isOpen, accountId, selectedRange, customStart,
                   balanceHistory, reconArgs, reconDone>>
    /\ processed' = <<>>

\* the dates typed into the inputs: today - age
CustomAges == {3, 0, -2}

\* the range buttons clicked while the dates are edited
CustomDateRanges == {"30D", "CUSTOM"}

NextViewDates ==
    \/ OpenAccount("acc_A")
    \/ Close
    \/ \E r \in CustomDateRanges : SelectRange(r)
    \/ \E age \in CustomAges : SetCustomStart(Today - age)
    \/ \E age \in CustomAges : SetCustomEnd(Today - age)
    \/ \E q \in inflight : FetchDataFails(q)
    \/ \E q \in inflight, probeFails \in BOOLEAN : FetchDataSucceeds(q, probeFails)

SpecViewDates == Init /\ [][NextViewDates]_vars

-----------------------------------------------------------------------------
(* SpendingAnalysis: the stacked bar chart *)

\* date.getDay(): the day of the week of the local calendar day, Sunday = 0
getDay(t) == (LocalDay(t) + 4) % 7

\* s.includes(needle), both texts taken as their words between underscores
Includes(words, needle) ==
    \E i \in 0..(Len(words) - Len(needle)) :
        \A j \in 1..Len(needle) : words[i + j] = needle[j]

\* word.charAt(0).toUpperCase() + word.slice(1).toLowerCase()
Capitalize(word) ==
    CASE word = "FOOD" -> "Food"
      [] word = "AND" -> "And"
      [] word = "DRINK" -> "Drink"
      [] word = "GROCERIES" -> "Groceries"
      [] word = "TRANSPORTATION" -> "Transportation"
      [] word = "TAXIS" -> "Taxis"
      [] word = "GAS" -> "Gas"
      [] OTHER -> word

\* the custom mappings of getDisplayCategory, in the order they are tried
DetailedMappings ==
    << [needle |-> <<"GROCERIES">>, name |-> <<"Groceries">>],
       [needle |-> <<"RESTAURANT">>, name |-> <<"Restaurant">>],
       [needle |-> <<"FAST", "FOOD">>, name |-> <<"Fast Food">>],
       [needle |-> <<"COFFEE">>, name |-> <<"Coffee">>],
       [needle |-> <<"BEER", "WINE", "AND", "LIQUOR">>, name |-> <<"Alcohol">>],
       [needle |-> <<"TRANSPORTATION", "GAS">>, name |-> <<"Gas">>],
       [needle |-> <<"TRANSPORTATION", "PARKING">>, name |-> <<"Parking">>],
       [needle |-> <<"TRANSPORTATION", "PUBLIC", "TRANSIT">>, name |-> <<"Public Transit">>],
       [needle |-> <<"TRANSPORTATION", "TOLLS">>, name |-> <<"Tolls">>],
       [needle |-> <<"INTERNET", "AND", "CABLE">>, name |-> <<"Internet & Cable">>],
       [needle |-> <<"GAS", "AND", "ELECTRICITY">>, name |-> <<"Gas & Electricity">>],
       [needle |-> <<"RENT", "AND", "UTILITIES", "WATER">>, name |-> <<"Water">>],
       [needle |-> <<"RENT", "AND", "UTILITIES", "TELEPHONE">>, name |-> <<"Phone">>],
       [needle |-> <<"HOME", "IMPROVEMENT", "HARDWARE">>, name |-> <<"Hardware">>] >>

\* getDisplayCategory: null without a personal finance category, else the
\* first custom mapping that matches, else the primary category in title case
\* (a name is the sequence of its words)
getDisplayCategory(tx) ==
    IF tx.personal_finance_category = NullData THEN <<>>
    ELSE LET detailed == tx.personal_finance_category.detailed
             primary  == tx.personal_finance_category.primary
             hits == {i \in 1..Len(DetailedMappings) :
                         Includes(detailed, DetailedMappings[i].needle)}
         IN  IF hits # {}
             THEN DetailedMappings[CHOOSE i \in hits : \A j \in hits : i <= j].name
             ELSE [i \in 1..Len(primary) |-> Capitalize(primary[i])]

\* the accounts prop: the linked accounts with the name of their institution
ChartAccounts ==
    [acc \in Accounts |->
        [institution_name |-> "Bank One",
         name |-> IF acc = "acc_A" THEN "Checking" ELSE "Savings"]]

\* the period a transaction is charted in: the day (toISOString of the UTC
\* parse), the Sunday on or before it (local setDate, then toISOString), or
\* the local year and month
PeriodKey(tx, timePeriod) ==
    LET date == ParseDateUTC(tx.date)
    IN  CASE timePeriod = "day" -> toISODate(date)
          [] timePeriod = "week" ->
                toISODate(setDate(date, getDate(date) - getDay(date)))
          [] timePeriod = "month" -> getFullYear(date) * 100 + (getMonth(date) + 1)

\* the key a transaction is stacked under
GroupKey(tx, groupBy) ==
    CASE groupBy = "category" ->
            IF getDisplayCategory(tx) # <<>> THEN getDisplayCategory(tx)
            ELSE IF tx.category # <<>> THEN <<tx.category[1]>>
            ELSE <<"Uncategorized">>
      [] groupBy = "account" ->
            IF tx.account_id \in DOMAIN ChartAccounts
            THEN <<ChartAccounts[tx.account_id].institution_name, " - ",
                   ChartAccounts[tx.account_id].name>>
            ELSE <<"Unknown">>
      [] groupBy = "institution" ->
            IF tx.account_id \in DOMAIN ChartAccounts
            THEN <<ChartAccounts[tx.account_id].institution_name>>
            ELSE <<"Unknown">>

\* grouped[key] = tx.amount, the last transaction of a group overwriting the
\* earlier ones: a plausible slip
GroupedAmountOverwrite(txs, key, groupBy) ==
    LET ofKey == SelectSeq(txs, LAMBDA tx : GroupKey(tx, groupBy) = key)
    IN  IF ofKey = <<>> THEN 0 ELSE ofKey[Len(ofKey)].amount

\* grouped[key] || 0 after grouped[key] += tx.amount over the transactions of
\* the period
GroupedAmount(txs, key, groupBy) ==
    SumAmounts(SelectSeq(txs, LAMBDA tx : GroupKey(tx, groupBy) = key))

\* the keys of an object's entries sorted with localeCompare: ascending
RECURSIVE SortedPeriods(_)
SortedPeriods(periods) ==
    IF periods = {} THEN <<>>
    ELSE LET first == CHOOSE k \in periods : \A l \in periods : k <= l
         IN  <<first>> \o SortedPeriods(periods \ {first})

\* chartData: one row per period in ascending order, holding a value for
\* every group key of the whole list
ChartDataOf(txs, timePeriod, groupBy) ==
    IF Len(txs) = 0 THEN <<>>
    ELSE LET periods == SortedPeriods({PeriodKey(txs[i], timePeriod) : i \in 1..Len(txs)})
             groupKeys == {GroupKey(txs[i], groupBy) : i \in 1..Len(txs)}
         IN  [n \in 1..Len(periods) |->
                 LET ofPeriod == SelectSeq(txs,
                                    LAMBDA tx : PeriodKey(tx, timePeriod) = periods[n])
                 IN  [period |-> periods[n],
                      values |-> [key \in groupKeys |->
                                     GroupedAmount(ofPeriod, key, groupBy)]]]

\* the transactions the filtered list is drawn from
ChartTxPool ==
    { [date |-> DaysFromCivil(2025, 2, 1), amount |-> 5000, account_id |-> "acc_A",
       personal_finance_category |->
           [primary |-> <<"FOOD", "AND", "DRINK">>,
            detailed |-> <<"FOOD", "AND", "DRINK", "GROCERIES">>],
       category |-> <<"Food and Drink">>],
      [date |-> DaysFromCivil(2025, 2, 2), amount |-> 1250, account_id |-> "acc_B",
       personal_finance_category |->
           [primary |-> <<"TRANSPORTATION">>,
            detailed |-> <<"TRANSPORTATION", "TAXIS">>],
       category |-> <<"Travel">>],
      [date |-> DaysFromCivil(2025, 2, 1), amount |-> -2000, account_id |-> "acc_A",
       personal_finance_category |-> NullData,
       category |-> <<"Shops">>],
      [date |-> DaysFromCivil(2025, 2, 2), amount |-> 300, account_id |-> "imported_1",
       personal_finance_category |-> NullData,
       category |-> <<>>],
      [date |-> DaysFromCivil(2025, 1, 25), amount |-> 700, account_id |-> "acc_B",
       personal_finance_category |->
           [primary |-> <<"FOOD", "AND", "DRINK">>,
            detailed |-> <<"FOOD", "AND", "DRINK", "GROCERIES">>],
       category |-> <<"Food and Drink">>] }

ChartTimePeriods == {"day", "week", "month"}
ChartGroupBys    == {"category", "account", "institution"}

\* the view, closed, as it is after construction
InitViewIdle ==
    /\ isOpen = FALSE
    /\ accountId = NullStr
    /\ loading = TRUE
    /\ error = NullStr
    /\ data = NullData
    /\ balanceHistory = <<>>
    /\ selectedRange = "30D"
    /\ customStart = formatDateToLocalYMD(setDate(now, getDate(now) - 30))
    /\ customEnd = formatDateToLocalYMD(now)
    /\ dateError = NullStr
    /\ earliestKnownDate = NullDate
    /\ inflight = {}
    /\ processed = <<>>
    /\ fetchCount = 0
    /\ reconArgs = [currentBalance |-> 0, transactions |-> <<>>,
                    knownEarliestDate |-> NullDate]
    /\ reconDone = FALSE
    /\ upstream = <<>>

\* everything outside a later component, idle
InitImportOutside ==
    /\ InitViewIdle
    /\ previousRun = <<>>
    /\ InitChartIdle
    /\ InitPagesIdle
    /\ InitDashIdle
    /\ InitExportIdle
    /\ InitLookupIdle
    /\ InitPieIdle
    /\ InitResignIdle
    /\ InitWorthIdle

InitExportOutside ==
    /\ previousRun = <<>>
    /\ InitChartIdle
    /\ InitPagesIdle
    /\ InitSpendingIdle
    /\ InitDashIdle
    /\ InitImportIdle
    /\ InitLookupIdle
    /\ InitPieIdle
    /\ InitResignIdle
    /\ InitWorthIdle

InitLookupOutside ==
    /\ InitViewIdle
    /\ previousRun = <<>>
    /\ InitChartIdle
    /\ InitPagesIdle
    /\ InitSpendingIdle
    /\ InitDashIdle
    /\ InitImportIdle
    /\ InitExportIdle
    /\ InitPieIdle
    /\ InitResignIdle
    /\ InitWorthIdle

InitPieOutside ==
    /\ previousRun = <<>>
    /\ InitChartIdle
    /\ InitPagesIdle
    /\ InitSpendingIdle
    /\ InitDashIdle
    /\ InitImportIdle
    /\ InitExportIdle
    /\ InitLookupIdle
    /\ InitResignIdle
    /\ InitWorthIdle

InitResignOutside ==
    /\ InitViewIdle
    /\ previousRun = <<>>
    /\ InitChartIdle
    /\ InitPagesIdle
    /\ InitSpendingIdle
    /\ InitDashIdle
    /\ InitImportIdle
    /\ InitExportIdle
    /\ InitLookupIdle
    /\ InitPieIdle
    /\ InitWorthIdle

InitWorthOutside ==
    /\ InitViewIdle
    /\ previousRun = <<>>
    /\ InitChartIdle
    /\ InitPagesIdle
    /\ InitSpendingIdle
    /\ InitImportIdle
    /\ InitExportIdle
    /\ InitLookupIdle
    /\ InitPieIdle
    /\ InitResignIdle

InitChart ==
    /\ tz \in TzOffsets
    /\ now = ModalToday * HoursPerDay + ModalHour - tz
    /\ InitViewIdle
    /\ InitLaterIdle
    /\ previousRun = <<>>
    /\ InitPagesIdle
    /\ InitSpendingIdle
    /\ InitDashIdle
    /\ saSortedTransactions \in SeqsUpTo(ChartTxPool, MaxTx)
    /\ chartTimePeriod = "week"
    /\ chartGroupBy = "category"
    /\ chartData = ChartDataOf(saSortedTransactions, chartTimePeriod, chartGroupBy)

\* the time-period selector of the chart; the memo is recomputed on the render
SetChartTimePeriod(timePeriod) ==
    /\ timePeriod # chartTimePeriod
    /\ chartTimePeriod' = timePeriod
    /\ chartData' = ChartDataOf(saSortedTransactions, timePeriod, chartGroupBy)
    /\ UNCHANGED <<chartOthers, saSortedTransactions, chartGroupBy>>

\* the group-by selector of the chart
SetChartGroupBy(groupBy) ==
    /\ groupBy # chartGroupBy
    /\ chartGroupBy' = groupBy
    /\ chartData' = ChartDataOf(saSortedTransactions, chartTimePeriod, groupBy)
    /\ UNCHANGED <<chartOthers, saSortedTransactions, chartTimePeriod>>

NextChart ==
    \/ \E timePeriod \in ChartTimePeriods : SetChartTimePeriod(timePeriod)
    \/ \E groupBy \in ChartGroupBys : SetChartGroupBy(groupBy)

SpecChart == InitChart /\ [][NextChart]_vars

-----------------------------------------------------------------------------
(* The get_transactions route: the pagination loop *)

PageSize == 500                  \* const count = 500

\* the safety break one page later: a plausible slip
SafetyCapOnePageMore == 21 * PageSize

\* if (offset > 10000) hasMore = false
SafetyCap == 10000

\* the transactions upstream are numbered 1, 2, ... in page order.  A stable
\* source holds n of them and answers a request with those from the offset
\* on, a page at most; a source of kind "full" always has a full page more;
\* a source of kind "repeat" ignores the offset and returns its first page
PageOf(source, offset) ==
    CASE source.kind = "stable" ->
            [i \in 1..MaxOf(0, MinOf(PageSize, source.n - offset)) |-> offset + i]
      [] source.kind = "full" -> [i \in 1..PageSize |-> offset + i]
      [] source.kind = "repeat" -> [i \in 1..PageSize |-> i]

\* every failure of a page request taken as fatal: a plausible slip
FirstRequestFailedAlways(offset) == TRUE

\* if (offset === 0) throw error
FirstRequestFailed(offset) == offset = 0

\* NextResponse.json({ transactions: allTransactions })
OkResponse(transactions) == [status |-> 200, transactions |-> transactions]

\* NextResponse.json({ error: ... }, { status: 500 })
ErrorResponse == [status |-> 500, error |-> "Failed to fetch transactions"]

\* one pass of the while loop whose page request succeeds, and the return
\* that follows it when the loop ends
FetchPageSucceeds ==
    /\ gtHasMore
    /\ LET transactions == PageOf(gtSource, gtOffset)
           all == gtAllTransactions \o transactions
           offsetAfter == IF Len(transactions) < PageSize THEN gtOffset
                          ELSE gtOffset + PageSize
           more == ~(Len(transactions) < PageSize) /\ ~(offsetAfter > SafetyCap)
       IN  /\ gtAllTransactions' = all
           /\ gtOffset' = offsetAfter
           /\ gtHasMore' = more
           /\ gtResponse' = IF more THEN NoResponse ELSE OkResponse(all)
    /\ gtPageLog' = Append(gtPageLog, [offset |-> gtOffset, ok |-> TRUE])
    /\ UNCHANGED <<pagesOthers, gtSource>>

\* one pass of the while loop whose page request throws
FetchPageFails ==
    /\ gtHasMore
    /\ gtHasMore' = FALSE
    /\ gtResponse' = IF FirstRequestFailed(gtOffset) THEN ErrorResponse
                     ELSE OkResponse(gtAllTransactions)
    /\ gtPageLog' = Append(gtPageLog, [offset |-> gtOffset, ok |-> FALSE])
    /\ UNCHANGED <<pagesOthers, gtSource, gtAllTransactions, gtOffset>>

\* the numbers of transactions a stable source holds
SourceSizes == {0, 3, 499, 500, 501, 1000, 1200, 9999, 10000, 10001, 10499,
                10500, 10501, 11000}

Sources == [kind : {"stable"}, n : SourceSizes]
               \cup {[kind |-> "full", n |-> 0], [kind |-> "repeat", n |-> 0]}

\* a request with a token and account ids has arrived, the loop is about to start
InitPages ==
    /\ tz = 0
    /\ now = ModalToday * HoursPerDay + ModalHour - tz
    /\ InitViewIdle
    /\ InitLaterIdle
    /\ previousRun = <<>>
    /\ InitChartIdle
    /\ InitSpendingIdle
    /\ InitDashIdle
    /\ gtSource \in Sources
    /\ gtAllTransactions = <<>>
    /\ gtHasMore = TRUE
    /\ gtOffset = 0
    /\ gtPageLog = <<>>
    /\ gtResponse = NoResponse

NextPages ==
    \/ FetchPageSucceeds
    \/ FetchPageFails

SpecPages == InitPages /\ [][NextPages]_vars

\* the upstream answers every page request, with a page or with an error
SpecPagesLive == SpecPages /\ WF_vars(NextPages)

-----------------------------------------------------------------------------
(* SpendingAnalysis: fetchTransactions *)

Tokens == {"tok_1", "tok_2"}

\* account.access_token of the accounts prop
TokenOf(acc) == IF acc = "acc_A" THEN "tok_1" ELSE "tok_2"

\* the transactions get_transactions returns for a token: those of the
\* requested accounts dated within [startDate, endDate], one per account,
\* two days old
SpendingUpstream(token, ids, startDate, endDate) ==
    LET owned == {acc \in ids : TokenOf(acc) = token /\ startDate <= Today - 2
                                  /\ Today - 2 <= endDate}
    IN  SortedPeriods({IF acc = "acc_A" THEN 1 ELSE 2 : acc \in owned})

\* what a per-token request comes back with: a body with transactions, a body
\* with an error (status 400 or 500), or a rejected promise (network failure)
FetchOutcomes == {"ok", "error", "reject"}

\* fetchTransactions, called by the effect for the render with these values
FetchTransactions(ids, range, cStart, cEnd) ==
    IF ids = {}
    THEN /\ saTransactions' = <<>>
         /\ UNCHANGED <<saDateError, saLoading, saInflight, saFetchCount>>
    ELSE IF range = "CUSTOM" /\ cStart > cEnd
    THEN /\ saDateError' = "Start date cannot be after end date"
         /\ saTransactions' = <<>>
         /\ saLoading' = FALSE
         /\ UNCHANGED <<saInflight, saFetchCount>>
    ELSE /\ saDateError' = IF range = "CUSTOM" THEN NullStr ELSE saDateError
         /\ saLoading' = TRUE
         /\ Cardinality(saInflight) < MaxInflight
         /\ saFetchCount < MaxFetches
         /\ saFetchCount' = saFetchCount + 1
         /\ LET r == getDateRangeOf(range, cStart, cEnd)
            IN  saInflight' = saInflight \cup
                    {[n |-> saFetchCount + 1,
                      ids |-> ids,
                      tokens |-> {TokenOf(acc) : acc \in ids \cap Accounts},
                      startDate |-> toISODate(r.start),
                      endDate |-> toISODate(r.end)]}
         /\ UNCHANGED saTransactions

\* toggleAccount
ToggleAccount(acc) ==
    /\ saSelectedAccountIds' = IF acc \in saSelectedAccountIds
                               THEN saSelectedAccountIds \ {acc}
                               ELSE saSelectedAccountIds \cup {acc}
    /\ FetchTransactions(saSelectedAccountIds', saSelectedRange, saCustomStart, saCustomEnd)
    /\ UNCHANGED <<spendingOthers, saSelectedRange, saCustomStart, saCustomEnd>>

\* a click on a range button of the spending analysis
SpendingSelectRange(r) ==
    /\ r # saSelectedRange
    /\ saSelectedRange' = r
    /\ FetchTransactions(saSelectedAccountIds, r, saCustomStart, saCustomEnd)
    /\ UNCHANGED <<spendingOthers, saSelectedAccountIds, saCustomStart, saCustomEnd>>

\* the custom start input
SpendingSetCustomStart(d) ==
    /\ saSelectedRange = "CUSTOM"
    /\ d # saCustomStart
    /\ saCustomStart' = d
    /\ FetchTransactions(saSelectedAccountIds, saSelectedRange, d, saCustomEnd)
    /\ UNCHANGED <<spendingOthers, saSelectedAccountIds, saSelectedRange, saCustomEnd>>

\* the custom end input
SpendingSetCustomEnd(d) ==
    /\ saSelectedRange = "CUSTOM"
    /\ d # saCustomEnd
    /\ saCustomEnd' = d
    /\ FetchTransactions(saSelectedAccountIds, saSelectedRange, saCustomStart, d)
    /\ UNCHANGED <<spendingOthers, saSelectedAccountIds, saSelectedRange, saCustomStart>>

\* the order of Object.entries(accountsByToken)
TokenOrder == <<"tok_1", "tok_2">>

\* the transactions of the bodies that carry some, concatenated token by token
RECURSIVE Combined(_, _, _)
Combined(call, outcome, i) ==
    IF i > Len(TokenOrder) THEN <<>>
    ELSE LET token == TokenOrder[i]
         IN  (IF token \in call.tokens /\ outcome[token] = "ok"
              THEN SpendingUpstream(token, call.ids, call.startDate, call.endDate)
              ELSE <<>>)
                 \o Combined(call, outcome, i + 1)

\* fetchTransactions after Promise.all: the results of its requests are in
FetchTransactionsSettles(call, outcome) ==
    /\ call \in saInflight
    /\ saInflight' = saInflight \ {call}
    /\ saTransactions' =
          IF \E token \in call.tokens : outcome[token] = "reject"
          THEN saTransactions
          ELSE Combined(call, outcome, 1)
    /\ saLoading' = FALSE
    /\ UNCHANGED <<spendingOthers, saSelectedAccountIds, saSelectedRange, saCustomStart,
                   saCustomEnd, saDateError, saFetchCount>>

\* the ranges clicked and the dates typed in the spending analysis
SpendingRanges == {"30D", "CUSTOM"}
SpendingCustomAges == {0, -2}           \* a typed date is today - age

InitSpending ==
    /\ tz = 0
    /\ now = ModalToday * HoursPerDay + ModalHour - tz
    /\ InitViewIdle
    /\ InitLaterIdle
    /\ previousRun = <<>>
    /\ InitChartIdle
    /\ InitPagesIdle
    /\ InitSpendingIdle
    /\ InitDashIdle

NextSpending ==
    \/ \E acc \in Accounts : ToggleAccount(acc)
    \/ \E r \in SpendingRanges : SpendingSelectRange(r)
    \/ \E age \in SpendingCustomAges : SpendingSetCustomStart(Today - age)
    \/ \E age \in SpendingCustomAges : SpendingSetCustomEnd(Today - age)
    \/ \E call \in saInflight :
          \E outcome \in [call.tokens -> FetchOutcomes] :
              FetchTransactionsSettles(call, outcome)

SpecSpending == InitSpending /\ [][NextSpending]_vars

-----------------------------------------------------------------------------
(* Dashboard: linking, removing, and fetching balances *)

\* the access tokens the aggregation API hands out, in the order it does
ItemTokens == <<"tok_1", "tok_2", "tok_3">>

\* the accounts get_balances returns for a token, access_token added
AccountsOfToken(token) ==
    CASE token = "tok_1" -> << [account_id |-> "acc_A", access_token |-> token] >>
      [] token = "tok_2" -> << [account_id |-> "acc_B", access_token |-> token] >>
      [] OTHER -> << [account_id |-> "acc_C", access_token |-> token] >>

\* data.institution.name for a token
InstitutionName(token) == IF token = "tok_3" THEN "Bank Two" ELSE "Bank One"

\* array.filter(t => t !== token)
WithoutToken(tokens, token) == SelectSeq(tokens, LAMBDA t : t # token)

\* the set of the entries of an array
Entries(array) == {array[i] : i \in 1..Len(array)}

\* results.flat() over the tokens of a balance fetch
RECURSIVE FlatAccounts(_)
FlatAccounts(tokens) ==
    IF tokens = <<>> THEN <<>>
    ELSE AccountsOfToken(Head(tokens)) \o FlatAccounts(Tail(tokens))

\* remove_item(access_token) of the aggregation API, reached through the
\* remove_institution route: the item is revoked
RemoveItem(items, token) == items \ {token}

\* a number no pending operation carries (operations are told apart by it)
FreshId(pending) ==
    CHOOSE k \in 0..Cardinality(pending) : \A op \in pending : op.n # k

\* the effect on [accessTokens], run for a render with a new array: it saves
\* the tokens and calls fetchAllBalances, which is then awaiting its requests.
\* A request for a token can only be answered with accounts if the item was
\* valid when the request was made
TokensEffect(tokens, items, pending) ==
    IF Len(tokens) > 0
    THEN /\ storedTokens' = [present |-> TRUE, tokens |-> tokens]
         /\ dashLoading' = TRUE
         /\ dashError' = NullStr
         /\ dashInflight' = pending \cup
                {[kind |-> "balances", n |-> FreshId(pending), tokens |-> tokens,
                  valid |-> Entries(tokens) \cap items]}
    ELSE /\ dashInflight' = pending
         /\ UNCHANGED <<storedTokens, dashLoading, dashError>>

\* handleLinkSuccess up to its await
StartLink ==
    /\ opCount < MaxOps
    /\ opCount' = opCount + 1
    /\ dashLoading' = TRUE
    /\ dashError' = NullStr
    /\ dashInflight' = dashInflight \cup {[kind |-> "link", n |-> FreshId(dashInflight)]}
    /\ UNCHANGED <<dashOthers, accessTokens, allAccounts, institutions, removingToken,
                   storedTokens, plaidItems, revokedItems>>

\* handleLinkSuccess after its await, the exchange having yielded a new token
LinkSucceeds(op) ==
    /\ op \in dashInflight
    /\ op.kind = "link"
    /\ LET issued == plaidItems \cup revokedItems
           newToken == ItemTokens[Cardinality(issued) + 1]
           tokens == IF newToken \in Entries(accessTokens) THEN accessTokens
                     ELSE Append(accessTokens, newToken)
       IN  /\ Cardinality(issued) < Len(ItemTokens)
           /\ plaidItems' = plaidItems \cup {newToken}
           /\ accessTokens' = tokens
           /\ TokensEffect(tokens, plaidItems', dashInflight \ {op})
    /\ UNCHANGED <<dashOthers, allAccounts, institutions, removingToken, revokedItems,
                   opCount>>

\* handleLinkSuccess after its await, the exchange having yielded a token of
\* the list: the updater returns prev, accessTokens is the same array, and the
\* effect on [accessTokens] does not run
LinkYieldsKnownToken(op, newToken) ==
    /\ op \in dashInflight
    /\ op.kind = "link"
    /\ newToken \in Entries(accessTokens)
    /\ dashInflight' = dashInflight \ {op}
    /\ UNCHANGED <<dashOthers, accessTokens, allAccounts, institutions, dashLoading,
                   dashError, removingToken, storedTokens, plaidItems, revokedItems,
                   opCount>>

\* handleLinkSuccess after its await, the exchange having failed
LinkFails(op) ==
    /\ op \in dashInflight
    /\ op.kind = "link"
    /\ dashInflight' = dashInflight \ {op}
    /\ dashError' = "exchange failed"
    /\ dashLoading' = FALSE
    /\ UNCHANGED <<dashOthers, accessTokens, allAccounts, institutions, removingToken,
                   storedTokens, plaidItems, revokedItems, opCount>>

\* the refresh button: fetchAllBalances(accessTokens)
Refresh ==
    /\ Len(accessTokens) > 0
    /\ ~dashLoading
    /\ opCount < MaxOps
    /\ opCount' = opCount + 1
    /\ dashLoading' = TRUE
    /\ dashError' = NullStr
    /\ dashInflight' = dashInflight \cup
          {[kind |-> "balances", n |-> FreshId(dashInflight), tokens |-> accessTokens,
            valid |-> Entries(accessTokens) \cap plaidItems]}
    /\ UNCHANGED <<dashOthers, accessTokens, allAccounts, institutions, removingToken,
                   storedTokens, plaidItems, revokedItems>>

\* fetchAllBalances once its requests have been answered: every answer with
\* accounts has set the institution of its token; Promise.all then yields the
\* accounts, or rejects
BalancesSettle(op, outcome) ==
    /\ op \in dashInflight
    /\ op.kind = "balances"
    /\ \A token \in Entries(op.tokens) : outcome[token] = "ok" => token \in op.valid
    /\ dashInflight' = dashInflight \ {op}
    /\ LET answered == {token \in Entries(op.tokens) : outcome[token] = "ok"}
       IN  /\ institutions' =
                  [token \in DOMAIN institutions \cup answered |->
                      IF token \in answered THEN InstitutionName(token)
                      ELSE institutions[token]]
           /\ IF answered = Entries(op.tokens)
              THEN /\ allAccounts' = FlatAccounts(op.tokens)
                   /\ UNCHANGED dashError
              ELSE /\ dashError' = "balances failed"
                   /\ UNCHANGED allAccounts
    /\ dashLoading' = FALSE
    /\ UNCHANGED <<dashOthers, accessTokens, removingToken, storedTokens, plaidItems,
                   revokedItems, opCount>>

\* handleRemoveInstitution up to its await, the user having confirmed; the
\* call keeps the accessTokens of the render its button belongs to
StartRemove(token) ==
    /\ token \in DOMAIN institutions
    /\ removingToken # token
    /\ opCount < MaxOps
    /\ opCount' = opCount + 1
    /\ removingToken' = token
    /\ dashError' = NullStr
    /\ dashInflight' = dashInflight \cup
          {[kind |-> "remove", n |-> FreshId(dashInflight), token |-> token,
            accessTokens |-> accessTokens]}
    /\ UNCHANGED <<dashOthers, accessTokens, allAccounts, institutions, dashLoading,
                   storedTokens, plaidItems, revokedItems>>

\* handleRemoveInstitution after its await, the item having been revoked
RemoveSucceeds(op) ==
    /\ op \in dashInflight
    /\ op.kind = "remove"
    /\ LET newTokens == WithoutToken(op.accessTokens, op.token)
       IN  /\ accessTokens' = newTokens
           /\ plaidItems' = RemoveItem(plaidItems, op.token)
           /\ revokedItems' = revokedItems \cup {op.token}
           /\ allAccounts' = SelectSeq(allAccounts, LAMBDA acc : acc.access_token # op.token)
           /\ institutions' = [token \in DOMAIN institutions \ {op.token} |->
                                  institutions[token]]
           /\ removingToken' = NullStr
           /\ IF Len(newTokens) > 0
              THEN TokensEffect(newTokens, plaidItems', dashInflight \ {op})
              ELSE /\ storedTokens' = [present |-> TRUE, tokens |-> newTokens]
                   /\ dashInflight' = dashInflight \ {op}
                   /\ UNCHANGED <<dashLoading, dashError>>
    /\ UNCHANGED <<dashOthers, opCount>>

\* handleRemoveInstitution after its await, the removal having failed
RemoveFails(op) ==
    /\ op \in dashInflight
    /\ op.kind = "remove"
    /\ dashInflight' = dashInflight \ {op}
    /\ dashError' = "Failed to remove institution"
    /\ removingToken' = NullStr
    /\ UNCHANGED <<dashOthers, accessTokens, allAccounts, institutions, dashLoading,
                   storedTokens, plaidItems, revokedItems, opCount>>

\* the tokens found in the local storage when the dashboard mounts
SavedTokens == << "tok_1", "tok_2" >>

\* the dashboard after its mount effects: the saved tokens are loaded and
\* their balances are being fetched
InitDashboard ==
    /\ tz = 0
    /\ now = ModalToday * HoursPerDay + ModalHour - tz
    /\ InitViewIdle
    /\ InitLaterIdle
    /\ previousRun = <<>>
    /\ InitChartIdle
    /\ InitPagesIdle
    /\ InitSpendingIdle
    /\ \E saved \in {<<>>, SavedTokens} :
          /\ accessTokens = saved
          /\ storedTokens = [present |-> saved # <<>>, tokens |-> saved]
          /\ plaidItems = Entries(saved)
          /\ dashLoading = (saved # <<>>)
          /\ dashInflight =
                IF saved = <<>> THEN {}
                ELSE {[kind |-> "balances", n |-> 0, tokens |-> saved,
                       valid |-> Entries(saved)]}
    /\ allAccounts = <<>>
    /\ institutions = EmptyRecord
    /\ dashError = NullStr
    /\ removingToken = NullStr
    /\ revokedItems = {}
    /\ opCount = 0

NextDashboard ==
    \/ StartLink
    \/ \E op \in dashInflight : LinkSucceeds(op)
    \/ \E op \in dashInflight : LinkFails(op)
    \/ \E op \in dashInflight : \E newToken \in Entries(ItemTokens) :
          LinkYieldsKnownToken(op, newToken)
    \/ Refresh
    \/ \E op \in {o \in dashInflight : o.kind = "balances"} :
          \E outcome \in [Entries(op.tokens) -> {"ok", "error"}] : BalancesSettle(op, outcome)
    \/ \E token \in Entries(ItemTokens) : StartRemove(token)
    \/ \E op \in dashInflight : RemoveSucceeds(op)
    \/ \E op \in dashInflight : RemoveFails(op)

SpecDashboard == InitDashboard /\ [][NextDashboard]_vars

\* the steps of the dashboard taken on a response: every request of the
\* browser is answered, with a result or with an error
DashboardResponse ==
    \/ \E op \in dashInflight : LinkSucceeds(op)
    \/ \E op \in dashInflight : LinkFails(op)
    \/ \E op \in dashInflight : \E newToken \in Entries(ItemTokens) :
          LinkYieldsKnownToken(op, newToken)
    \/ \E op \in {o \in dashInflight : o.kind = "balances"} :
          \E outcome \in [Entries(op.tokens) -> {"ok", "error"}] : BalancesSettle(op, outcome)
    \/ \E op \in dashInflight : RemoveSucceeds(op)
    \/ \E op \in dashInflight : RemoveFails(op)

\* the dashboard with every request answered in the end
SpecDashboardLive == SpecDashboard /\ WF_vars(DashboardResponse)

-----------------------------------------------------------------------------
(* Import of a statement file (ImportTransactionsDialog, SpendingAnalysis) *)

MaxRows == 2                     \* most data rows of an imported file
MaxImports == 2                  \* most clicks on Import in one behaviour

requiredColumns == {"date", "name", "category", "amount", "currency"}

\* the data rows of a sheet: a good one, one without a name, one with a date
\* that is none, and two with an amount that is no number
GoodRow == [date |-> "2024-01-05", name |-> "Cafe", category |-> "Food",
            amount |-> "20.00", currency |-> "USD"]

SheetRows ==
    {GoodRow, [GoodRow EXCEPT !.name = ""], [GoodRow EXCEPT !.date = "soon"],
     [GoodRow EXCEPT !.amount = "abc"], [GoodRow EXCEPT !.amount = "12abc"]}

\* the files the user can choose: a CSV or a workbook, with every required
\* column or without the currency column
Files ==
    [kind : {"csv", "xlsx"},
     columns : {requiredColumns, requiredColumns \ {"currency"}},
     rows : SeqsUpTo(SheetRows, MaxRows)]

\* parseCSV / parseXLSX: one object per data row.  Papa.parse with header:true
\* gives every row the keys of the header; sheet_to_json leaves out the keys
\* of the empty cells
ParsedRow(file, row) ==
    LET keys == IF file.kind = "csv" THEN file.columns
                ELSE {c \in file.columns : row[c] # ""}
    IN  [c \in keys |-> row[c]]

ParsedData(file) == [i \in 1..Len(file.rows) |-> ParsedRow(file, file.rows[i])]

\* normalizedRow.<column>?.toString().trim() ('' stands for undefined too)
Cell(row, column) == IF column \in DOMAIN row THEN row[column] ELSE ""

NaN == -1

\* parseFloat: the number the longest numeric prefix denotes, in cents, NaN
\* when there is none
parseFloat(amountStr) ==
    CASE amountStr = "20.00" -> 2000
      [] amountStr = "12abc" -> 1200
      [] OTHER -> NaN

\* isNaN(new Date(date).getTime())
InvalidDate(date) == date # "2024-01-05"

\* the message validateTransactions throws for a row, NullStr if it throws none
RowError(row) ==
    IF \E c \in requiredColumns : Cell(row, c) = ""
    THEN "Missing required data"
    ELSE IF parseFloat(Cell(row, "amount")) = NaN THEN "Invalid amount value"
    ELSE IF InvalidDate(Cell(row, "date")) THEN "Invalid date format"
    ELSE NullStr

\* data index of the first row the map throws on, counted from 1; 0 if none
FirstBadRow(parsedData) ==
    IF \E i \in 1..Len(parsedData) : RowError(parsedData[i]) # NullStr
    THEN CHOOSE i \in 1..Len(parsedData) :
            /\ RowError(parsedData[i]) # NullStr
            /\ \A j \in 1..(i - 1) : RowError(parsedData[j]) = NullStr
    ELSE 0

\* the first row validateTransactions reports, with the data index the code
\* counts from 0
RowNumberRule(i) == (i - 1) + 2

\* validateTransactions: the error thrown, or the transactions
validateTransactions(parsedData) ==
    IF Len(parsedData) = 0
    THEN [error |-> [message |-> "File is empty", row |-> 0], transactions |-> <<>>]
    ELSE IF requiredColumns \ DOMAIN parsedData[1] # {}
    THEN [error |-> [message |-> "Missing required columns", row |-> 0],
          transactions |-> <<>>]
    ELSE IF FirstBadRow(parsedData) # 0
    THEN [error |-> [message |-> RowError(parsedData[FirstBadRow(parsedData)]),
                     row |-> RowNumberRule(FirstBadRow(parsedData))],
          transactions |-> <<>>]
    ELSE [error |-> NoError,
          transactions |->
              [i \in 1..Len(parsedData) |->
                  [date |-> parsedData[i].date, name |-> parsedData[i].name,
                   category |-> parsedData[i].category,
                   amount |-> parseFloat(parsedData[i].amount),
                   currency |-> parsedData[i].currency]]]

\* `imported_${Date.now()}`: the clock has moved on between two imports
ImportedAccountId(k) == "imported_" \o ToString(k)

\* the dialog's trigger
OpenDialog ==
    /\ ~impOpen
    /\ impOpen' = TRUE
    /\ UNCHANGED <<importOthers, spendingVars, statementFile, impAccountName, impInstitutionName, impFile,
                   impError, impLoading, impPending, importedAccounts,
                   importedTransactions>>

\* the Cancel button (disabled while loading): the dialog closes, resetForm
CloseDialog ==
    /\ impOpen
    /\ ~impLoading
    /\ impOpen' = FALSE
    /\ impAccountName' = ""
    /\ impInstitutionName' = ""
    /\ impFile' = NoFile
    /\ impError' = NoError
    /\ impLoading' = FALSE
    /\ UNCHANGED <<importOthers, spendingVars, statementFile, impPending, importedAccounts,
                   importedTransactions>>

SetAccountName(name) ==
    /\ impOpen
    /\ name # impAccountName
    /\ impAccountName' = name
    /\ UNCHANGED <<importOthers, spendingVars, statementFile, impOpen, impInstitutionName, impFile, impError,
                   impLoading, impPending, importedAccounts, importedTransactions>>

SetInstitutionName(name) ==
    /\ impOpen
    /\ name # impInstitutionName
    /\ impInstitutionName' = name
    /\ UNCHANGED <<importOthers, spendingVars, statementFile, impOpen, impAccountName, impFile, impError,
                   impLoading, impPending, importedAccounts, importedTransactions>>

\* handleFileChange with a .csv, .xlsx or .xls file
handleFileChange(file) ==
    /\ impOpen
    /\ file # impFile
    /\ file # NoFile
    /\ impFile' = file
    /\ impError' = NoError
    /\ UNCHANGED <<importOthers, spendingVars, statementFile, impOpen, impAccountName, impInstitutionName,
                   impLoading, impPending, importedAccounts, importedTransactions>>

\* handleImport of the dialog up to its await: the early returns, then the
\* parser is started on the file
StartImport ==
    /\ impOpen
    /\ ~impLoading
    /\ IF impAccountName = ""
       THEN /\ impError' = [message |-> "Please enter an account name", row |-> 0]
            /\ UNCHANGED <<impLoading, impPending>>
       ELSE IF impInstitutionName = ""
       THEN /\ impError' = [message |-> "Please enter an institution name", row |-> 0]
            /\ UNCHANGED <<impLoading, impPending>>
       ELSE IF impFile = NoFile
       THEN /\ impError' = [message |-> "Please select a file", row |-> 0]
            /\ UNCHANGED <<impLoading, impPending>>
       ELSE /\ Cardinality(impPending) + Len(importedAccounts) < MaxImports
            /\ impLoading' = TRUE
            /\ impError' = NoError
            /\ impPending' = impPending \cup
                  {[n |-> Cardinality(impPending) + Len(importedAccounts) + 1,
                    accountName |-> impAccountName,
                    institutionName |-> impInstitutionName, file |-> impFile]}
    /\ UNCHANGED <<importOthers, spendingVars, statementFile, impOpen, impAccountName, impInstitutionName,
                   impFile, importedAccounts, importedTransactions>>

\* handleImport of the spending analysis (onImport): the account, its
\* transactions, the selection, and the effect on the selection
onImport(accountName, institutionName, importedTxs) ==
    LET account_id == ImportedAccountId(Len(importedAccounts) + 1)
    IN  /\ importedAccounts' = Append(importedAccounts,
              [account_id |-> account_id, name |-> accountName,
               institution_name |-> institutionName])
        /\ importedTransactions' = importedTransactions \o
              [i \in 1..Len(importedTxs) |->
                  [account_id |-> account_id, date |-> importedTxs[i].date,
                   name |-> importedTxs[i].name, amount |-> importedTxs[i].amount]]
        /\ saSelectedAccountIds' = saSelectedAccountIds \cup {account_id}
        /\ FetchTransactions(saSelectedAccountIds', saSelectedRange, saCustomStart,
                             saCustomEnd)
        /\ UNCHANGED <<saSelectedRange, saCustomStart, saCustomEnd>>

\* handleImport of the dialog after the parser resolved
ImportSettles(call) ==
    /\ call \in impPending
    /\ impPending' = impPending \ {call}
    /\ impLoading' = FALSE
    /\ LET result == validateTransactions(ParsedData(call.file))
       IN  IF result.error # NoError
           THEN /\ impError' = result.error
                /\ UNCHANGED <<spendingVars, impOpen, impAccountName, impInstitutionName,
                               impFile, importedAccounts, importedTransactions>>
           ELSE /\ onImport(call.accountName, call.institutionName, result.transactions)
                /\ impOpen' = FALSE
                /\ impAccountName' = ""
                /\ impInstitutionName' = ""
                /\ impFile' = NoFile
                /\ impError' = NoError
    /\ UNCHANGED <<importOthers, statementFile>>

AccountNames == {"", "Chequing"}
InstitutionNames == {"", "My Bank"}

InitImport ==
    /\ tz = 0
    /\ now = ModalToday * HoursPerDay + ModalHour - tz
    /\ InitImportOutside
    /\ InitSpendingIdle
    /\ statementFile \in Files
    /\ impOpen = FALSE
    /\ impAccountName = ""
    /\ impInstitutionName = ""
    /\ impFile = NoFile
    /\ impError = NoError
    /\ impLoading = FALSE
    /\ impPending = {}
    /\ importedAccounts = <<>>
    /\ importedTransactions = <<>>

NextImport ==
    \/ OpenDialog
    \/ CloseDialog
    \/ \E name \in AccountNames : SetAccountName(name)
    \/ \E name \in InstitutionNames : SetInstitutionName(name)
    \/ handleFileChange(statementFile)
    \/ StartImport
    \/ \E call \in impPending : ImportSettles(call)
    \/ \E call \in saInflight :
          \E outcome \in [call.tokens -> FetchOutcomes] :
              FetchTransactionsSettles(call, outcome)

SpecImport == InitImport /\ [][NextImport]_vars

-----------------------------------------------------------------------------
(* CSV export of the account-details view *)

\* the line with the amount as the transaction carries it: a plausible slip
CsvRowSignKept(tx, currency) ==
    [date |-> tx.date,
     category |-> IF getDisplayCategory(tx) # <<>> THEN getDisplayCategory(tx)
                  ELSE tx.category,
     amount |-> tx.amount,
     currency |-> currency]

\* the line of a transaction: tx.date, the category text, tx.amount * -1 as
\* join(',') prints the number, and the account's currency (the quoted name
\* is left out)
CsvRow(tx, currency) ==
    [date |-> tx.date,
     category |-> IF getDisplayCategory(tx) # <<>> THEN getDisplayCategory(tx)
                  ELSE tx.category,
     amount |-> tx.amount * (-1),
     currency |-> currency]

\* filteredTransactions: those dated within the window of the selected
\* range, as local date strings, newest first
FilteredTransactions(transactions, range, cStart, cEnd) ==
    LET r == getDateRangeOf(range, cStart, cEnd)
        startDateStr == formatDateToLocalYMD(r.start)
        endDateStr == formatDateToLocalYMD(r.end)
    IN  SortByDateDesc(SelectSeq(transactions,
            LAMBDA tx : tx.date >= startDateStr /\ tx.date <= endDateStr))

\* handleExportCSV, for a view that holds data and has a transaction in the window
handleExportCSV ==
    /\ data # NullData
    /\ LET filteredTransactions ==
               FilteredTransactions(data.transactions, selectedRange, customStart, customEnd)
       IN  /\ Len(filteredTransactions) # 0
           /\ csvContent' = [i \in 1..Len(filteredTransactions) |->
                                CsvRow(filteredTransactions[i], data.iso_currency_code)]
    /\ UNCHANGED <<exportOthers, envVars, viewVars>>

ExportToday == DaysFromCivil(2024, 1, 10)

\* the transactions the view can hold
ExportTxPool ==
    { [date |-> DaysFromCivil(2024, 1, 5), amount |-> 2000,
       personal_finance_category |->
           [primary |-> <<"FOOD", "AND", "DRINK">>,
            detailed |-> <<"FOOD", "AND", "DRINK", "GROCERIES">>],
       category |-> <<"Food and Drink">>],
      [date |-> DaysFromCivil(2024, 1, 6), amount |-> -1500,
       personal_finance_category |-> NullData, category |-> <<"Transfer">>],
      [date |-> ExportToday - 30, amount |-> 700,
       personal_finance_category |-> NullData, category |-> <<>>],
      [date |-> ExportToday - 31, amount |-> 900,
       personal_finance_category |-> NullData, category |-> <<"Shops">>],
      [date |-> ExportToday, amount |-> 0,
       personal_finance_category |-> NullData, category |-> <<"Shops">>] }

ExportRanges == {"1W", "30D", "MAX"}

\* the view open on an account, its data loaded
InitExport ==
    /\ tz \in TzOffsets
    /\ now = ExportToday * HoursPerDay + ModalHour - tz
    /\ upstream = <<>>
    /\ InitExportOutside
    /\ isOpen = TRUE
    /\ accountId = "acc_A"
    /\ loading = FALSE
    /\ error = NullStr
    /\ \E txs \in SeqsUpTo(ExportTxPool, MaxTx) :
          data = [account_id |-> "acc_A", current |-> CurrentBalance,
                  iso_currency_code |-> "USD", transactions |-> txs]
    /\ balanceHistory = <<>>
    /\ selectedRange \in ExportRanges
    /\ customStart = formatDateToLocalYMD(setDate(now, getDate(now) - 30))
    /\ customEnd = formatDateToLocalYMD(now)
    /\ dateError = NullStr
    /\ earliestKnownDate = NullDate
    /\ inflight = {}
    /\ processed = <<>>
    /\ fetchCount = 0
    /\ reconArgs = [currentBalance |-> 0, transactions |-> <<>>,
                    knownEarliestDate |-> NullDate]
    /\ reconDone = FALSE
    /\ csvContent = <<>>

NextExport == handleExportCSV

SpecExport == InitExport /\ [][NextExport]_vars

-----------------------------------------------------------------------------
(* get_account_details: which token owns the account *)

MaxTokens == 3                   \* most access tokens in a request

\* accountsResponse.data.accounts.length > 0, with every answer that is not
\* an error taken for the account: a plausible slip
AccountReturnedAlways(answer) == answer # "throws"

\* accountsResponse.data.accounts.length > 0
AccountReturned(answer) == answer = "account"

\* the answers of accountsGet with account_ids: [account_id]: the account, no
\* account, or an error
LookupAnswers == {"account", "none", "throws"}

\* the handler is past its for loop
LoopDone == gadFoundToken # NullStr \/ gadNext > Len(gadAccessTokens)

\* one turn of the for loop: accountsGet for the next token
LookupToken ==
    /\ gadResponse = NoResponse
    /\ ~LoopDone
    /\ LET token == gadAccessTokens[gadNext]
       IN  /\ gadLog' = Append(gadLog, [request |-> "accountsGet", access_token |-> token])
           /\ gadFoundToken' = IF AccountReturned(gadAnswers[token]) THEN token
                               ELSE gadFoundToken
    /\ gadNext' = gadNext + 1
    /\ UNCHANGED <<lookupOthers, gadAccessTokens, gadAccountId, gadAnswers, gadResponse>>

\* after the loop without a token: 404
RespondNotFound ==
    /\ gadResponse = NoResponse
    /\ LoopDone
    /\ gadFoundToken = NullStr
    /\ gadResponse' = [status |-> 404]
    /\ UNCHANGED <<lookupOthers, gadAccessTokens, gadAccountId, gadAnswers, gadNext,
                   gadFoundToken, gadLog>>

\* after the loop with a token: the transactions query, which returns or throws
RespondWithTransactions(throws) ==
    /\ gadResponse = NoResponse
    /\ LoopDone
    /\ gadFoundToken # NullStr
    /\ gadLog' = Append(gadLog, [request |-> "transactionsGet",
                                 access_token |-> gadFoundToken])
    /\ gadResponse' = [status |-> IF throws THEN 500 ELSE 200]
    /\ UNCHANGED <<lookupOthers, gadAccessTokens, gadAccountId, gadAnswers, gadNext,
                   gadFoundToken>>

\* a request arrives; without access_tokens or account_id it is answered 400
InitLookup ==
    /\ tz = 0
    /\ now = ModalToday * HoursPerDay + ModalHour - tz
    /\ upstream = <<>>
    /\ InitLookupOutside
    /\ gadAccessTokens \in SeqsUpTo(Entries(ItemTokens), MaxTokens)
    /\ gadAccountId \in {"acc_A", ""}
    /\ gadAnswers \in [Entries(ItemTokens) -> LookupAnswers]
    /\ gadNext = 1
    /\ gadFoundToken = NullStr
    /\ gadLog = <<>>
    /\ gadResponse = IF gadAccountId = "" THEN [status |-> 400] ELSE NoResponse

NextLookup ==
    \/ LookupToken
    \/ RespondNotFound
    \/ \E throws \in BOOLEAN : RespondWithTransactions(throws)

SpecLookup == InitLookup /\ [][NextLookup]_vars

-----------------------------------------------------------------------------
(* spendingData: the pie-style summary of the account-details view *)

TopCategories == 5               \* sortedCategories.slice(0, 5)

\* getDisplayCategory(tx) || (tx.category ? tx.category[0] : 'Uncategorized'),
\* a transaction without a category being one whose category is <<>>
PieCategory(tx) ==
    IF getDisplayCategory(tx) # <<>> THEN getDisplayCategory(tx)
    ELSE IF tx.category # <<>> THEN <<tx.category[1]>>
    ELSE <<"Uncategorized">>

\* the categories of the counted transactions, in the order of their first
\* transaction (the order of Object.entries)
RECURSIVE CategoriesInOrder(_, _)
CategoriesInOrder(txs, seen) ==
    IF txs = <<>> THEN <<>>
    ELSE LET category == PieCategory(Head(txs))
         IN  IF category \in seen THEN CategoriesInOrder(Tail(txs), seen)
             ELSE <<category>> \o CategoriesInOrder(Tail(txs), seen \cup {category})

\* sort((a, b) => b.value - a.value): largest value first, entries of equal
\* value in the order they had
RECURSIVE SortByValueDesc(_)
SortByValueDesc(entries) ==
    IF entries = <<>> THEN <<>>
    ELSE LET first == CHOOSE i \in 1..Len(entries) :
                          /\ \A j \in 1..Len(entries) : entries[j].value <= entries[i].value
                          /\ \A j \in 1..(i - 1) : entries[j].value < entries[i].value
         IN  <<entries[first]>> \o
             SortByValueDesc(SubSeq(entries, 1, first - 1) \o
                             SubSeq(entries, first + 1, Len(entries)))

\* reduce((sum, item) => sum + item.value, 0)
RECURSIVE ReduceValues(_)
ReduceValues(rest) ==
    IF rest = <<>> THEN 0 ELSE rest[1].value + ReduceValues(Tail(rest))

\* sortedCategories.slice(5).reduce(...)
OtherValue(sortedCategories) ==
    ReduceValues(SubSeq(sortedCategories, TopCategories + 1, Len(sortedCategories)))

\* the transactions counted: positive amounts dated within the window
CountedTransactions(transactions, r) ==
    SelectSeq(transactions,
        LAMBDA tx : /\ tx.date >= formatDateToLocalYMD(r.start)
                    /\ tx.date <= formatDateToLocalYMD(r.end)
                    /\ tx.amount > 0)

\* Object.entries(categoryTotals) as { name, value }
CategoryTotals(counted, categories) ==
    [i \in 1..Len(categories) |->
        [name |-> categories[i],
         value |-> SumAmounts(SelectSeq(counted,
                      LAMBDA tx : PieCategory(tx) = categories[i]))]]

\* top5.push({ name: 'Other', value: otherValue }) if otherValue > 0
WithOther(top5, otherValue) ==
    IF otherValue > 0 THEN Append(top5, [name |-> <<"Other">>, value |-> otherValue])
    ELSE top5

\* the grouping into the top 5 and Other
TopFiveAndOther(sortedCategories) ==
    IF Len(sortedCategories) > TopCategories
    THEN WithOther(SubSeq(sortedCategories, 1, TopCategories), OtherValue(sortedCategories))
    ELSE sortedCategories

\* the totals of the categories counted, largest first
SortedCategories(counted) ==
    SortByValueDesc(CategoryTotals(counted, CategoriesInOrder(counted, {})))

\* spendingData: the totals per category of the positive amounts dated within
\* the window, largest first, cut to five entries and Other
SpendingDataOf(transactions, range, cStart, cEnd) ==
    TopFiveAndOther(SortedCategories(
        CountedTransactions(transactions, getDateRangeOf(range, cStart, cEnd))))

\* useMemo(..., [data, selectedRange]): the summary is computed again in a
\* render in which data or selectedRange differ from the render before, and
\* is the one of the render before in any other
useMemoSpendingData(nextData, nextRange, cStart, cEnd) ==
    IF nextData = data /\ nextRange = selectedRange THEN spendingData
    ELSE IF nextData = NullData THEN <<>>
    ELSE SpendingDataOf(nextData.transactions, nextRange, cStart, cEnd)

\* a click on a range button, and the render that follows
PieSelectRange(r) ==
    /\ isOpen
    /\ error = NullStr
    /\ ~((loading /\ data = NullData) \/ isDisabled(r))
    /\ r # selectedRange
    /\ selectedRange' = r
    /\ FetchEffect(accountId, r, customStart, customEnd)
    /\ spendingData' = useMemoSpendingData(data', r, customStart, customEnd)
    /\ processed' = <<>>
    /\ UNCHANGED <<envVars, pieOthers, isOpen, accountId, customStart, customEnd,
                   balanceHistory, reconArgs, reconDone>>

\* the custom start input, and the render that follows
PieSetCustomStart(d) ==
    /\ isOpen
    /\ error = NullStr
    /\ selectedRange = "CUSTOM"
    /\ d # customStart
    /\ customStart' = d
    /\ FetchEffect(accountId, selectedRange, d, customEnd)
    /\ spendingData' = useMemoSpendingData(data', selectedRange, d, customEnd)
    /\ processed' = <<>>
    /\ UNCHANGED <<envVars, pieOthers, isOpen, accountId, selectedRange, customEnd,
                   balanceHistory, reconArgs, reconDone>>

\* the custom end input, and the render that follows
PieSetCustomEnd(d) ==
    /\ isOpen
    /\ error = NullStr
    /\ selectedRange = "CUSTOM"
    /\ d # customEnd
    /\ customEnd' = d
    /\ FetchEffect(accountId, selectedRange, customStart, d)
    /\ spendingData' = useMemoSpendingData(data', selectedRange, customStart, d)
    /\ processed' = <<>>
    /\ UNCHANGED <<envVars, pieOthers, isOpen, accountId, selectedRange, customStart,
                   balanceHistory, reconArgs, reconDone>>

\* the transactions the summary is drawn from: one per entry with an amount
\* that is not 0, of the age in days given
PieTemplates ==
    << [personal_finance_category |->
            [primary |-> <<"FOOD", "AND", "DRINK">>,
             detailed |-> <<"FOOD", "AND", "DRINK", "GROCERIES">>],
        category |-> <<"Food and Drink">>, age |-> 2],
       [personal_finance_category |->
            [primary |-> <<"TRANSPORTATION">>,
             detailed |-> <<"TRANSPORTATION", "TAXIS">>],
        category |-> <<"Travel">>, age |-> 2],
       [personal_finance_category |-> NullData, category |-> <<"Shops">>, age |-> 2],
       [personal_finance_category |-> NullData, category |-> <<"Recreation">>, age |-> 2],
       [personal_finance_category |-> NullData, category |-> <<"Service">>, age |-> 2],
       [personal_finance_category |-> NullData, category |-> <<"Healthcare">>, age |-> 2],
       [personal_finance_category |-> NullData, category |-> <<>>, age |-> 2],
       [personal_finance_category |-> NullData, category |-> <<"Shops">>, age |-> 5],
       [personal_finance_category |-> NullData, category |-> <<"Payment">>, age |-> 40] >>

\* the list of the transactions with the amounts chosen, 0 for none
RECURSIVE PieTransactions(_, _)
PieTransactions(amounts, i) ==
    IF i > Len(PieTemplates) THEN <<>>
    ELSE (IF amounts[i] = 0 THEN <<>>
          ELSE << [date |-> ModalToday - PieTemplates[i].age, amount |-> amounts[i],
                   account_id |-> "acc_A",
                   personal_finance_category |-> PieTemplates[i].personal_finance_category,
                   category |-> PieTemplates[i].category] >>)
         \o PieTransactions(amounts, i + 1)

PieAmounts == {0, -500, 1000, 2500}
PieLargeAmounts == {1000, 2500}
PieSmallAmounts == {0, 300}

PieRanges == {"1W", "30D", "CUSTOM"}
PieStartAges == {30, 3}
PieEndAges == {0, 4, -2}

\* the view as it shows the account with the response to the call of the
\* range of 30 days
InitPie ==
    /\ tz = 0
    /\ now = ModalToday * HoursPerDay + ModalHour - tz
    /\ upstream = <<>>
    /\ InitPieOutside
    /\ isOpen = TRUE
    /\ accountId = "acc_A"
    /\ loading = FALSE
    /\ error = NullStr
    /\ \E a1, a2 \in PieLargeAmounts, a6, a7 \in PieAmounts, a8, a9 \in PieSmallAmounts :
          data = [account_id |-> "acc_A", current |-> CurrentBalance,
                  iso_currency_code |-> "USD",
                  transactions |->
                      PieTransactions(<<a1, a2, 1000, 2500, 1000, a6, a7, a8, a9>>, 1)]
    /\ balanceHistory = <<>>
    /\ selectedRange = "30D"
    /\ customStart = formatDateToLocalYMD(setDate(now, getDate(now) - 30))
    /\ customEnd = formatDateToLocalYMD(now)
    /\ dateError = NullStr
    /\ earliestKnownDate = NullDate
    /\ inflight = {}
    /\ processed = <<>>
    /\ fetchCount = 1
    /\ reconArgs = [currentBalance |-> 0, transactions |-> <<>>,
                    knownEarliestDate |-> NullDate]
    /\ reconDone = FALSE
    /\ spendingData = SpendingDataOf(data.transactions, selectedRange, customStart,
                                     customEnd)

NextPie ==
    \/ \E r \in PieRanges : PieSelectRange(r)
    \/ \E age \in PieStartAges : PieSetCustomStart(ModalToday - age)
    \/ \E age \in PieEndAges : PieSetCustomEnd(ModalToday - age)

SpecPie == InitPie /\ [][NextPie]_vars

-----------------------------------------------------------------------------
(* the re-signing step of fetchData, on responses of every kind of account *)

MaxResigned == 2                 \* longest transaction list of a re-signed response

ResignAccounts ==
    { [type |-> "credit", subtype |-> "credit card"],
      [type |-> "credit", subtype |-> "paypal"],
      [type |-> "loan", subtype |-> "credit card"],
      [type |-> "depository", subtype |-> "checking"] }

ResignNames ==
    {"AUTOMATIC PAYMENT", "PAYMENT - THANK YOU", "Automatic Payment - Thank You",
     "Coffee Shop"}

ResignAmounts == {-5000, 0, 5000}

ResignTransactions ==
    [name : ResignNames, amount : ResignAmounts, date : {ModalToday - 3}]

\* the lines of fetchData between response.json() and setData
ReSignStep ==
    /\ rsResult = <<>>
    /\ rsResult' = ReSign(rsAccount.type, rsAccount.subtype, rsTransactions)
    /\ UNCHANGED <<rsAccount, rsTransactions, resignOthers>>

InitResign ==
    /\ tz = 0
    /\ now = ModalToday * HoursPerDay + ModalHour - tz
    /\ upstream = <<>>
    /\ InitResignOutside
    /\ rsAccount \in ResignAccounts
    /\ \E n \in 1..MaxResigned : rsTransactions \in [1..n -> ResignTransactions]
    /\ rsResult = <<>>

NextResign == ReSignStep

SpecResign == InitResign /\ [][NextResign]_vars

-----------------------------------------------------------------------------
(* The totals of the dashboard: Total Cash & Investments, Total Net Worth *)

MaxAccounts == 2                 \* most accounts of the list of the dashboard

\* balances.current of an account that reports none
NullBalance == 0 - 1

\* curr.balances.current || 0
CurrentOrZero(account) ==
    IF account.balances.current = NullBalance THEN 0 ELSE account.balances.current

\* allAccounts.reduce(...) of cashAndInvestmentsBalance
RECURSIVE CashAndInvestmentsOf(_)
CashAndInvestmentsOf(accounts) ==
    IF accounts = <<>> THEN 0
    ELSE LET curr == accounts[Len(accounts)]
             acc == CashAndInvestmentsOf(SubSeq(accounts, 1, Len(accounts) - 1))
         IN  IF curr.type = "depository" \/ curr.type = "investment"
             THEN acc + CurrentOrZero(curr)
             ELSE acc

\* allAccounts.reduce(...) of totalBalance
RECURSIVE TotalBalanceOf(_)
TotalBalanceOf(accounts) ==
    IF accounts = <<>> THEN 0
    ELSE LET curr == accounts[Len(accounts)]
             acc == TotalBalanceOf(SubSeq(accounts, 1, Len(accounts) - 1))
             balance == CurrentOrZero(curr)
         IN  IF curr.type = "other" THEN acc
             ELSE IF curr.type = "loan" \/ curr.type = "credit" THEN acc - balance
             ELSE acc + balance

\* the types of account of the aggregation API
AccountTypes == {"depository", "investment", "credit", "loan", "brokerage", "other"}

AccountBalances == {NullBalance, 2500, 10000}

BalanceAccounts == [type : AccountTypes, balances : [current : AccountBalances]]

\* setAllAccounts(combinedAccounts) of the first balance fetch, and the render
\* that follows
AccountsArrive(accounts) ==
    /\ allAccounts = <<>>
    /\ allAccounts' = accounts
    /\ cashAndInvestmentsBalance' = CashAndInvestmentsOf(accounts)
    /\ totalBalance' = TotalBalanceOf(accounts)
    /\ UNCHANGED <<worthOthers, accessTokens, institutions, dashLoading, dashError,
                   removingToken, storedTokens, dashInflight, plaidItems, revokedItems,
                   opCount>>

InitWorth ==
    /\ tz = 0
    /\ now = ModalToday * HoursPerDay + ModalHour - tz
    /\ upstream = <<>>
    /\ InitWorthOutside
    /\ InitDashIdle
    /\ cashAndInvestmentsBalance = 0
    /\ totalBalance = 0

NextWorth ==
    \E n \in 1..MaxAccounts : \E accounts \in [1..n -> BalanceAccounts] :
        AccountsArrive(accounts)

SpecWorth == InitWorth /\ [][NextWorth]_vars

-----------------------------------------------------------------------------
(* Properties of the reconstructed series (checked under SpecRecon) *)

\* the days of the requested window, as local calendar days
WindowStartDay == LocalDay(getDateRange(selectedRange).start)
WindowEndDay   == LocalDay(getDateRange(selectedRange).end)

RECURSIVE NetAmountFrom(_, _, _)
NetAmountFrom(transactions, i, d) ==
    IF i > Len(transactions) THEN 0
    ELSE (IF transactions[i].date = d THEN transactions[i].amount ELSE 0)
            + NetAmountFrom(transactions, i + 1, d)

\* netAmount(d): the sum of the amounts of the transactions of the call dated d
NetAmount(d) == NetAmountFrom(reconArgs.transactions, 1, d)

\* C1: any two points of the series dated d and d+1 satisfy
\* S[d] = S[d+1] + netAmount(d+1), all transactions of day d+1 netted
C1_ConsecutivePairs ==
    reconDone =>
        \A i, j \in 1..Len(balanceHistory) :
            balanceHistory[j].date = balanceHistory[i].date + 1 =>
                balanceHistory[i].balance
                    = balanceHistory[j].balance + NetAmount(balanceHistory[j].date)

\* C1 witness: a series with two points a day apart, the later day carrying
\* two transactions whose net amount is not zero
C1_Witness ==
    /\ reconDone
    /\ \E i, j \in 1..Len(balanceHistory) :
          /\ balanceHistory[j].date = balanceHistory[i].date + 1
          /\ NetAmount(balanceHistory[j].date) # 0
          /\ Cardinality({k \in 1..Len(reconArgs.transactions) :
                reconArgs.transactions[k].date = balanceHistory[j].date}) = 2

\* C2: when the window reaches today, the walk's first point (the one emitted
\* for today, the last of the series) carries the current balance B, and so
\* does any point dated today
C2_TodayIsCurrentBalance ==
    (reconDone /\ WindowEndDay >= Today) =>
        /\ balanceHistory # <<>> =>
              balanceHistory[Len(balanceHistory)].balance = reconArgs.currentBalance
        /\ \A i \in 1..Len(balanceHistory) :
              balanceHistory[i].date = Today =>
                  balanceHistory[i].balance = reconArgs.currentBalance

\* C2 witness: a series with a point for today, computed from a list with a
\* transaction dated today
C2_Witness ==
    /\ reconDone
    /\ WindowEndDay >= Today
    /\ \E i \in 1..Len(balanceHistory) : balanceHistory[i].date = Today
    /\ NetAmount(Today) # 0

\* the boundary of a call: the known boundary, and no boundary (day 0 of the
\* calendar) when none is known
BoundaryDay == IF reconArgs.knownEarliestDate # NullDate
               THEN reconArgs.knownEarliestDate ELSE 0

\* the days of [start, end] \cap [boundary, today]
CoveredFirstDay == MaxOf(WindowStartDay, BoundaryDay)
CoveredLastDay  == MinOf(WindowEndDay, Today)

\* C3: the series is chronological and has exactly one point for each day of
\* [start, end] \cap [boundary, today]; without a boundary it begins at the
\* window start
C3_ExactlyTheWindowDays ==
    reconDone =>
        /\ Len(balanceHistory) = MaxOf(0, CoveredLastDay - CoveredFirstDay + 1)
        /\ \A i \in 1..Len(balanceHistory) :
              balanceHistory[i].date = CoveredFirstDay + i - 1

\* C4: balance 1000.00, one transaction of 50.00 dated today D, window of the
\* last two days: the series is [(D-1, 1050.00), (D, 1000.00)]
C4_TwoDayScenario ==
    (/\ reconDone
     /\ selectedRange = "1D"
     /\ reconArgs.currentBalance = 100000
     /\ reconArgs.transactions = <<[date |-> Today, amount |-> 5000]>>
     /\ reconArgs.knownEarliestDate = NullDate)
    => balanceHistory = << [date |-> Today - 1, balance |-> 105000],
                           [date |-> Today,     balance |-> 100000] >>

\* C5: an empty transaction list gives one point with balance B for every day
\* of [start, min(end, today)], for every preset range
C5_EmptyListIsFlat ==
    (/\ reconDone
     /\ selectedRange # "CUSTOM"
     /\ reconArgs.transactions = <<>>
     /\ reconArgs.knownEarliestDate = NullDate)
    => /\ Len(balanceHistory) = MinOf(WindowEndDay, Today) - WindowStartDay + 1
       /\ \A i \in 1..Len(balanceHistory) :
             /\ balanceHistory[i].date = WindowStartDay + i - 1
             /\ balanceHistory[i].balance = reconArgs.currentBalance

\* C6: a boundary inside the requested window is the date of the first point
C6_StartsAtBoundary ==
    (/\ reconDone
     /\ reconArgs.knownEarliestDate # NullDate
     /\ WindowStartDay <= reconArgs.knownEarliestDate
     /\ reconArgs.knownEarliestDate <= WindowEndDay)
    => /\ balanceHistory # <<>>
       /\ balanceHistory[1].date = reconArgs.knownEarliestDate

\* C7 as stated: adjacent points satisfy bal_{d+1} = bal_d + net_amount(d+1)
C7_Original ==
    reconDone =>
        \A i \in 1..(Len(balanceHistory) - 1) :
            balanceHistory[i + 1].balance
                = balanceHistory[i].balance + NetAmount(balanceHistory[i + 1].date)

\* C7 amended: adjacent points are one day apart and satisfy
\* bal_{d+1} = bal_d - net_amount(d+1)
C7_AdjacentPoints ==
    reconDone =>
        \A i \in 1..(Len(balanceHistory) - 1) :
            /\ balanceHistory[i + 1].date = balanceHistory[i].date + 1
            /\ balanceHistory[i + 1].balance
                  = balanceHistory[i].balance - NetAmount(balanceHistory[i + 1].date)

\* C7 witness: adjacent points whose later day has a non-zero net amount
C7_Witness ==
    /\ reconDone
    /\ \E i \in 1..(Len(balanceHistory) - 1) :
          NetAmount(balanceHistory[i + 1].date) # 0

-----------------------------------------------------------------------------
(* Properties of the boundary estimate (checked under Spec) *)

\* the step handles a 200 response
HandledResponse == processed' # <<>> /\ processed'[1].ok

\* the date of the oldest transaction of the response just handled
OldestReturned ==
    CHOOSE d \in {data'.transactions[i].date : i \in 1..Len(data'.transactions)} :
        \A i \in 1..Len(data'.transactions) : d <= data'.transactions[i].date

\* C8: while an account is displayed with its own data, a response for that
\* account never moves a boundary that is set to an earlier date
C8_NeverMovesEarlier ==
    [][(/\ isOpen
        /\ HandledResponse
        /\ processed'[1].request.accountId = accountId
        /\ data.account_id = accountId
        /\ earliestKnownDate # NullDate
        /\ earliestKnownDate' # NullDate)
       => earliestKnownDate' >= earliestKnownDate]_vars

\* C9 as stated: the boundary is set to a date only by the response of a
\* query for one of the large preset ranges
C9_Original ==
    [][(earliestKnownDate' # earliestKnownDate /\ earliestKnownDate' # NullDate)
       => /\ HandledResponse
          /\ processed'[1].request.selectedRange \in {"6M", "1Y", "2Y", "YTD", "MAX"}]_vars

\* C9 amended: the boundary is set to a date only by a response that carries
\* earliest_transaction_date (for any range, and to that date) or, without
\* it, by the response of a query for 6M, 1Y, 2Y, YTD or MAX; a response
\* without earliest_transaction_date for 1D, 1W, 30D, 3M or CUSTOM leaves it
C9_SetOnlyByApiDateOrLargeRange ==
    [][/\ (earliestKnownDate' # earliestKnownDate /\ earliestKnownDate' # NullDate)
          => /\ HandledResponse
             /\ \/ /\ processed'[1].earliest_transaction_date # NullDate
                   /\ earliestKnownDate' = processed'[1].earliest_transaction_date
                \/ /\ processed'[1].earliest_transaction_date = NullDate
                   /\ processed'[1].request.selectedRange
                         \in {"6M", "1Y", "2Y", "YTD", "MAX"}
       /\ (/\ HandledResponse
           /\ processed'[1].earliest_transaction_date = NullDate
           /\ processed'[1].request.selectedRange \in {"1D", "1W", "30D", "3M", "CUSTOM"})
          => earliestKnownDate' = earliestKnownDate]_vars

\* C9 witness: the response of a 30D query that carried
\* earliest_transaction_date has set the boundary to that date
C9_Witness ==
    /\ processed # <<>>
    /\ processed[1].ok
    /\ processed[1].request.selectedRange = "30D"
    /\ processed[1].earliest_transaction_date # NullDate
    /\ earliestKnownDate = processed[1].earliest_transaction_date

\* C10: on a response without earliest_transaction_date for a large range,
\* the boundary becomes the oldest returned transaction's date if all
\* transactions of the window were returned and that date is more than one
\* day after the requested window start, and is left unchanged otherwise
C10_FallbackRule ==
    [][(/\ HandledResponse
        /\ processed'[1].earliest_transaction_date = NullDate
        /\ processed'[1].request.selectedRange \in {"6M", "1Y", "2Y", "YTD", "MAX"})
       => earliestKnownDate' =
             IF /\ processed'[1].returned >= processed'[1].total_transactions
                /\ processed'[1].returned > 0
                /\ OldestReturned - processed'[1].requestedStart > 1
             THEN OldestReturned
             ELSE earliestKnownDate]_vars

-----------------------------------------------------------------------------
(* The six-month scenario (checked under SpecScenario) *)

\* the response just handled is that of a 6M query for which the API reported
\* three transactions, returned all three and supplied no
\* earliest_transaction_date, the oldest lying 40 days after the window start
SixMonthScenario ==
    /\ processed # <<>>
    /\ processed[1].ok
    /\ processed[1].request.selectedRange = "6M"
    /\ processed[1].earliest_transaction_date = NullDate
    /\ processed[1].total_transactions = 3
    /\ processed[1].returned = 3
    /\ OldestTxDate(data.transactions) - processed[1].requestedStart = ScenarioGap

\* January 1 of the current year, the day the YTD window starts
YearStartDay == DaysFromCivil(getFullYear(now), 1, 1)

\* C11 as stated: after the scenario the boundary is the oldest transaction's
\* date and the 1Y, 2Y and YTD buttons are disabled, whatever today's date is
C11_Original ==
    SixMonthScenario =>
        /\ earliestKnownDate = OldestTxDate(data.transactions)
        /\ isDisabled("1Y")
        /\ isDisabled("2Y")
        /\ isDisabled("YTD")

\* C11 amended: after the scenario the boundary is the oldest transaction's
\* date and the 1Y and 2Y buttons are disabled; the YTD button is disabled
\* only if January 1 of the current year lies before the boundary, and it is
\* disabled if January 1 lies two days or more before it
C11_SixMonthScenario ==
    SixMonthScenario =>
        /\ earliestKnownDate = OldestTxDate(data.transactions)
        /\ isDisabled("1Y")
        /\ isDisabled("2Y")
        /\ isDisabled("YTD") => YearStartDay < earliestKnownDate
        /\ YearStartDay + 2 <= earliestKnownDate => isDisabled("YTD")

\* C11 witness: the scenario has happened on a day whose year began after the
\* boundary: 1Y is disabled and YTD is not
C11_Witness ==
    /\ SixMonthScenario
    /\ isDisabled("1Y")
    /\ ~isDisabled("YTD")
    /\ earliestKnownDate < YearStartDay

-----------------------------------------------------------------------------
(* Repeated runs of the reconstructor (checked under SpecRerun) *)

-----------------------------------------------------------------------------
(* The chart of the spending analysis (checked under SpecChart) *)

RECURSIVE SumOverKeys(_, _)
SumOverKeys(values, keys) ==
    IF keys = {} THEN 0
    ELSE LET key == CHOOSE k \in keys : TRUE
         IN  values[key] + SumOverKeys(values, keys \ {key})

RECURSIVE SumOfRows(_, _)
SumOfRows(rows, n) ==
    IF n = 0 THEN 0
    ELSE SumOverKeys(rows[n].values, DOMAIN rows[n].values) + SumOfRows(rows, n - 1)

\* C13: for every filtered list, time bucket and grouping dimension, the
\* values of chartData summed over all rows and all group keys equal the sum
\* of the amounts of the filtered transactions
C13_ChartSumsToTotal ==
    SumOfRows(chartData, Len(chartData)) = SumAmounts(saSortedTransactions)

\* C13 witness: under a bucket and a dimension other than the initial ones,
\* two transactions of different amounts are stacked in one group of one row
C13_Witness ==
    /\ chartTimePeriod = "month"
    /\ chartGroupBy = "institution"
    /\ Len(saSortedTransactions) = 2
    /\ saSortedTransactions[1].amount # saSortedTransactions[2].amount
    /\ Len(chartData) = 1
    /\ Cardinality(DOMAIN chartData[1].values) = 1
    /\ SumAmounts(saSortedTransactions) # 0

-----------------------------------------------------------------------------
(* The pagination loop of get_transactions (SpecPages, SpecPagesLive) *)

\* the handler has returned
HandlerDone == gtResponse # NoResponse

\* no page request of the run has failed
NoPageFailed == \A i \in 1..Len(gtPageLog) : gtPageLog[i].ok

\* the pages the upstream returned to the requests that succeeded, in order
RECURSIVE PagesReturned(_)
PagesReturned(n) ==
    IF n = 0 THEN <<>>
    ELSE PagesReturned(n - 1)
            \o (IF gtPageLog[n].ok THEN PageOf(gtSource, gtPageLog[n].offset) ELSE <<>>)

\* the page requests the loop can make before the safety cap ends it
MaxPageRequests == 10000 \div 500 + 1

\* C14: the loop terminates for every upstream behaviour, never making more
\* than 21 page requests; against a source that always returns a full page
\* it stops with offset above 10000 and returns what it has accumulated
C14_LoopTerminates ==
    /\ <>HandlerDone
    /\ [](Len(gtPageLog) <= MaxPageRequests)
    /\ []((HandlerDone /\ NoPageFailed /\ gtSource.kind \in {"full", "repeat"})
            => /\ gtOffset > 10000
               /\ Len(gtPageLog) = MaxPageRequests
               /\ gtResponse = OkResponse(PagesReturned(Len(gtPageLog))))

\* C14 witness: the loop has ended at the cap against a source that returned
\* a full page every time
C14_Witness ==
    /\ HandlerDone
    /\ NoPageFailed
    /\ gtSource.kind = "full"
    /\ gtOffset > 10000
    /\ gtResponse.status = 200
    /\ Len(gtResponse.transactions) = MaxPageRequests * 500

\* the last page request of the run failed
LastPageFailed == gtPageLog # <<>> /\ ~gtPageLog[Len(gtPageLog)].ok

\* C15: if the first page request fails the handler answers with status 500
\* and no transactions; if a later one fails, the loop stops and the response
\* holds exactly the transactions of the pages fetched before the failure
C15_FailureHandling ==
    (HandlerDone /\ LastPageFailed) =>
        IF Len(gtPageLog) = 1
        THEN /\ gtResponse.status = 500
             /\ "transactions" \notin DOMAIN gtResponse
        ELSE /\ gtResponse.status = 200
             /\ gtResponse.transactions = PagesReturned(Len(gtPageLog))
             /\ ~gtHasMore

\* C15 witness: the third page request failed after two full pages, and the
\* response holds the thousand transactions of those two pages
C15_Witness ==
    /\ HandlerDone
    /\ LastPageFailed
    /\ Len(gtPageLog) = 3
    /\ gtResponse.status = 200
    /\ Len(gtResponse.transactions) = 1000

\* C16: against a stable upstream holding N transactions, no page request
\* failing, the handler returns each of the N transactions exactly once, in
\* upstream page order, for every N
C16_CompleteSet ==
    (HandlerDone /\ NoPageFailed /\ gtSource.kind = "stable") =>
        /\ gtResponse.status = 200
        /\ gtResponse.transactions = [i \in 1..gtSource.n |-> i]

-----------------------------------------------------------------------------
(* Validation of the custom range (SpecSpending for the spending analysis) *)

\* the custom range of the account-details view after the step is invalid
ViewRangeInvalid ==
    /\ isOpen'
    /\ selectedRange' = "CUSTOM"
    /\ (customStart' > customEnd' \/ customStart' > Today \/ customEnd' > Today)

\* the custom range of the spending analysis after the step is invalid
SpendingRangeInvalid ==
    /\ saSelectedRange' = "CUSTOM"
    /\ (saCustomStart' > saCustomEnd' \/ saCustomStart' > Today \/ saCustomEnd' > Today)

\* the step is a change of the inputs the fetch effect of the view depends on
ViewInputsChange ==
    <<isOpen, accountId, selectedRange, customStart, customEnd>>'
        # <<isOpen, accountId, selectedRange, customStart, customEnd>>

\* the step is a change of the inputs the fetch effect of the analysis depends on
SpendingInputsChange ==
    <<saSelectedAccountIds, saSelectedRange, saCustomStart, saCustomEnd>>'
        # <<saSelectedAccountIds, saSelectedRange, saCustomStart, saCustomEnd>>

\* C17: when the custom range is invalid (start after end, or a start or end
\* in the future) the effect issues no request and sets the inline message;
\* the inputs stay as entered; in the account-details view and in the
\* spending analysis
C17_InvalidRangeBlocksFetch ==
    [][/\ (ViewInputsChange /\ ViewRangeInvalid)
          => /\ inflight' = inflight
             /\ dateError' # NullStr
       /\ (SpendingInputsChange /\ SpendingRangeInvalid)
          => /\ saInflight' = saInflight
             /\ saDateError' # NullStr]_vars

-----------------------------------------------------------------------------
(* Failures of upstream fetches (SpecSpending for the spending analysis) *)

\* C18: whenever an upstream fetch fails, a user-visible message is set, and
\* what the other tokens of the same query returned is kept: for fetchData of
\* the view, for fetchTransactions of the spending analysis (whose only
\* message state is dateError), and for fetchAllBalances of the dashboard
C18_FailuresSurface ==
    [][/\ \A q \in inflight : FetchDataFails(q) => error' # NullStr
       /\ \A call \in saInflight :
             \A outcome \in [call.tokens -> FetchOutcomes] :
                 (/\ FetchTransactionsSettles(call, outcome)
                  /\ \E token \in call.tokens : outcome[token] # "ok")
                 => /\ saDateError' # NullStr
                    /\ \A token \in call.tokens :
                          outcome[token] = "ok" =>
                              Entries(SpendingUpstream(token, call.ids, call.startDate,
                                                       call.endDate))
                                 \subseteq Entries(saTransactions')
       /\ \A op \in {o \in dashInflight : o.kind = "balances"} :
             \A outcome \in [Entries(op.tokens) -> {"ok", "error"}] :
                 (/\ BalancesSettle(op, outcome)
                  /\ \E token \in Entries(op.tokens) : outcome[token] # "ok")
                 => dashError' # NullStr]_vars

-----------------------------------------------------------------------------
(* Removal and linking on the dashboard (checked under SpecDashboard) *)

\* no balance fetch is in flight
BalancesResolved == \A op \in dashInflight : op.kind # "balances"

\* no link and no removal is in flight
LinksAndRemovalsDone == \A op \in dashInflight : op.kind = "balances"

\* C19: once a removal has succeeded for a token and all balance fetches in
\* flight have resolved, no account of the list carries the token and the
\* institutions map has no entry for it
C19_RemovalCascades ==
    BalancesResolved =>
        \A token \in revokedItems :
            /\ \A i \in 1..Len(allAccounts) : allAccounts[i].access_token # token
            /\ token \notin DOMAIN institutions

\* the token array in the local storage (none written yet: no tokens)
PersistedTokens == IF storedTokens.present THEN storedTokens.tokens ELSE <<>>

\* C20: once the links and removals started have completed, the persisted
\* token array equals the in-memory list and holds exactly the tokens linked
\* and not removed since
C20_TokensConsistent ==
    LinksAndRemovalsDone =>
        /\ PersistedTokens = accessTokens
        /\ Entries(accessTokens) = plaidItems
        /\ Len(accessTokens) = Cardinality(plaidItems)

-----------------------------------------------------------------------------
(* Import of a statement file (checked under SpecImport) *)

\* the file has no column of a required name
LacksColumn(file) == requiredColumns \ file.columns # {}

\* a data row of the sheet is invalid: a required cell is empty, the amount
\* is not a number, or the date is none
InvalidRow(row) ==
    \/ \E c \in requiredColumns : row[c] = ""
    \/ row.amount # "20.00"
    \/ row.date # "2024-01-05"

\* the sheet row number of the first invalid data row (the header is row 1)
FirstInvalidRowNumber(file) ==
    1 + CHOOSE i \in 1..Len(file.rows) :
            /\ InvalidRow(file.rows[i])
            /\ \A j \in 1..(i - 1) : ~InvalidRow(file.rows[j])

\* C21: an import whose file lacks a required column or has an invalid row
\* is aborted as a whole: onImport is not called, nothing is added to the
\* spending analysis, and the message names the first offending row when the
\* failure is of a row
C21_InvalidFileAborts ==
    [][\A call \in impPending :
          (/\ ImportSettles(call)
           /\ \/ LacksColumn(call.file)
              \/ \E i \in 1..Len(call.file.rows) : InvalidRow(call.file.rows[i]))
          => /\ importedAccounts' = importedAccounts
             /\ importedTransactions' = importedTransactions
             /\ saSelectedAccountIds' = saSelectedAccountIds
             /\ impError'.message # NullStr
             /\ ~LacksColumn(call.file) =>
                    impError'.row = FirstInvalidRowNumber(call.file)]_vars

-----------------------------------------------------------------------------
(* CSV export (checked under SpecExport) *)

\* the transactions of the view dated within the window of the selected range
WindowTransactions ==
    LET r == getDateRange(selectedRange)
    IN  SelectSeq(data.transactions,
            LAMBDA tx : /\ LocalDay(r.start) <= tx.date
                        /\ tx.date <= LocalDay(r.end))

\* the entries of a list that satisfy a test, counted
CountOf(list, Test(_)) == Cardinality({i \in 1..Len(list) : Test(list[i])})

\* C22: the CSV file has one row per transaction of the filtered window, and
\* the amount of a row is the amount of its transaction with the sign
\* inverted; the transactions of 2024-01-05 (20.00) and 2024-01-06 (-15.00)
\* give rows with -20.00 and 15.00
C22_CsvRows ==
    csvContent # <<>> =>
        /\ Len(csvContent) = Len(WindowTransactions)
        /\ \A tx \in ExportTxPool :
              LET IsTx(t) == t.date = tx.date /\ t.amount = tx.amount
                  IsRow(row) == row.date = tx.date /\ row.amount = 0 - tx.amount
              IN  CountOf(csvContent, IsRow) = CountOf(WindowTransactions, IsTx)
        /\ \A i \in 1..Len(csvContent) :
              /\ csvContent[i].date = DaysFromCivil(2024, 1, 5) => csvContent[i].amount = -2000
              /\ csvContent[i].date = DaysFromCivil(2024, 1, 6) => csvContent[i].amount = 1500

\* the two transactions of the example exported, the newer one first
C22_Witness ==
    /\ Len(csvContent) = 2
    /\ csvContent[1].date = DaysFromCivil(2024, 1, 6)
    /\ csvContent[1].amount = 1500
    /\ csvContent[2].date = DaysFromCivil(2024, 1, 5)
    /\ csvContent[2].amount = -2000

-----------------------------------------------------------------------------
(* get_account_details: the 404 response (checked under SpecLookup) *)

\* the positions of the request's tokens whose lookup returns the account
OwnerPositions ==
    {i \in 1..Len(gadAccessTokens) : gadAnswers[gadAccessTokens[i]] = "account"}

\* how many lookups a finished handler has made: up to the first owner
LookupsExpected ==
    IF OwnerPositions = {} THEN Len(gadAccessTokens)
    ELSE CHOOSE i \in OwnerPositions : \A j \in OwnerPositions : i <= j

\* the requests of the log of one kind
LogOf(kind) == SelectSeq(gadLog, LAMBDA entry : entry.request = kind)

\* C23: the handler answers 404 exactly when no token of the request returns
\* the account; it asks the tokens in order, each position once, stops at the
\* first token that returns the account and queries the transactions with
\* it; before a 404 no transactions are queried
C23_NotFound ==
    (gadResponse # NoResponse /\ gadAccountId # "") =>
        /\ gadResponse.status = 404 <=> OwnerPositions = {}
        /\ LogOf("accountsGet") =
              [i \in 1..LookupsExpected |->
                  [request |-> "accountsGet", access_token |-> gadAccessTokens[i]]]
        /\ gadResponse.status = 404 => LogOf("transactionsGet") = <<>>
        /\ gadResponse.status # 404 =>
              LogOf("transactionsGet") =
                  << [request |-> "transactionsGet",
                      access_token |-> gadAccessTokens[LookupsExpected]] >>

\* a 404 after a token that threw and one that returned no account
C23_Witness ==
    /\ gadResponse = [status |-> 404]
    /\ Len(gadAccessTokens) = 2
    /\ gadAnswers[gadAccessTokens[1]] = "throws"
    /\ gadAnswers[gadAccessTokens[2]] = "none"
    /\ Len(gadLog) = 2

-----------------------------------------------------------------------------
(* Responses that arrive late (checked under SpecStale) *)

\* the call was made for another account or range than the view shows now
Stale(q) ==
    ~(/\ isOpen
      /\ q.accountId = accountId
      /\ q.selectedRange = selectedRange
      /\ q.customStart = customStart
      /\ q.customEnd = customEnd)

\* C24: the response of a call made for another range or account than the
\* one selected by now is not discarded: data and balanceHistory are set
\* from it, so that the series shown is that of the call and not that of
\* the selection
C24_StaleOverwrites ==
    [][\A q \in inflight, probeFails \in BOOLEAN :
          (FetchDataSucceeds(q, probeFails) /\ Stale(q))
          => /\ data'.account_id = q.accountId
             /\ processed'[1].request = q
             /\ LET start == getDateRangeOf(q.selectedRange, q.customStart,
                                            q.customEnd).start
                IN  /\ data'.transactions =
                          transactionsGet(q.accountId, toISODate(start), toISODate(now),
                                          PageCount, 0).transactions
                    /\ balanceHistory' =
                          BalanceHistoryOf(data'.current, data'.transactions,
                              IF data'.earliest_transaction_date # NullDate
                              THEN data'.earliest_transaction_date
                              ELSE q.earliestKnownDate,
                              q.selectedRange, q.customStart, q.customEnd)]_vars

\* every call has resolved, and the view open on one account shows the data
\* and the series of the other
C24_Witness ==
    /\ isOpen
    /\ inflight = {}
    /\ data # NullData
    /\ data.account_id # accountId
    /\ balanceHistory # <<>>
    /\ ~loading

-----------------------------------------------------------------------------
(* The range controls and the boundary (checked under Spec) *)

\* the local day the window of a range control starts on
StartDay(r) == LocalDay(getDateRange(r).start)

\* the controls the view tests against the boundary
BoundaryControls == {"6M", "1Y", "2Y", "YTD"}

\* C25 as stated: once a boundary is known, each of the ten range controls
\* is disabled by it exactly when its window starts before the boundary
C25_Original ==
    earliestKnownDate # NullDate =>
        \A r \in TimeRanges : isDisabled(r) <=> StartDay(r) < earliestKnownDate

\* C25 amended: once a boundary is known, the controls 6M, 1Y, 2Y and YTD are
\* disabled by it only if their window starts before the boundary, and are
\* disabled if it starts two days or more before it (exactly when it starts
\* before it, in a zone at or east of UTC); the controls 1D, 1W, 30D, 3M, MAX
\* and CUSTOM are never disabled by the boundary
C25_BoundaryDisables ==
    earliestKnownDate # NullDate =>
        /\ \A r \in BoundaryControls :
              /\ isDisabled(r) => StartDay(r) < earliestKnownDate
              /\ StartDay(r) + 2 <= earliestKnownDate => isDisabled(r)
              /\ tz >= 0 => (isDisabled(r) <=> StartDay(r) < earliestKnownDate)
        /\ \A r \in TimeRanges \ BoundaryControls : ~isDisabled(r)

\* a boundary is known that the windows of 3M, 6M and MAX start before and
\* the window of YTD does not: 6M is disabled, the other three are not
C25_Witness ==
    /\ earliestKnownDate # NullDate
    /\ StartDay("6M") < earliestKnownDate
    /\ isDisabled("6M")
    /\ StartDay("3M") < earliestKnownDate
    /\ StartDay("MAX") < earliestKnownDate
    /\ ~isDisabled("3M")
    /\ ~isDisabled("MAX")
    /\ StartDay("YTD") >= earliestKnownDate
    /\ ~isDisabled("YTD")

-----------------------------------------------------------------------------
(* spendingData (checked under SpecPie) *)

\* the positive amounts of the view dated within the window
SpendingTransactions == SelectSeq(WindowTransactions, LAMBDA tx : tx.amount > 0)

\* the categories that have spending, and the spending of one
SpendingCategories ==
    {PieCategory(SpendingTransactions[i]) : i \in 1..Len(SpendingTransactions)}

SpendingOf(category) ==
    SumAmounts(SelectSeq(SpendingTransactions, LAMBDA tx : PieCategory(tx) = category))

RECURSIVE SumOfSpending(_)
SumOfSpending(categories) ==
    IF categories = {} THEN 0
    ELSE LET c == CHOOSE c \in categories : TRUE
         IN  SpendingOf(c) + SumOfSpending(categories \ {c})

RECURSIVE SumOfValues(_)
SumOfValues(entries) ==
    IF entries = <<>> THEN 0 ELSE Head(entries).value + SumOfValues(Tail(entries))

MaxEntries == TopCategories + 1

\* C26: the summary has at most 6 entries; when more than 5 categories have
\* spending it is the 5 categories with the largest totals, largest first,
\* and one Other entry with the sum of all the remaining categories; the
\* entries always sum to the total of the positive amounts dated within the
\* selected window
C26_SpendingSummary ==
        /\ Len(spendingData) <= MaxEntries
        /\ SumOfValues(spendingData) = SumAmounts(SpendingTransactions)
        /\ Cardinality(SpendingCategories) > TopCategories =>
              LET kept == {spendingData[i].name : i \in 1..TopCategories}
              IN  /\ Len(spendingData) = MaxEntries
                  /\ Cardinality(kept) = TopCategories
                  /\ kept \subseteq SpendingCategories
                  /\ \A i \in 1..TopCategories :
                        spendingData[i].value = SpendingOf(spendingData[i].name)
                  /\ \A i \in 1..(TopCategories - 1) :
                        spendingData[i].value >= spendingData[i + 1].value
                  /\ \A c \in SpendingCategories \ kept :
                        SpendingOf(c) <= spendingData[TopCategories].value
                  /\ spendingData[MaxEntries].name = <<"Other">>
                  /\ spendingData[MaxEntries].value =
                        SumOfSpending(SpendingCategories \ kept)

-----------------------------------------------------------------------------
(* the re-signing step (checked under SpecResign) *)

IsCreditAccount == rsAccount.type = "credit" \/ rsAccount.subtype = "credit card"

HasPaymentName(tx) == IsAutomaticPayment(tx.name) \/ IsPaymentThankYou(tx.name)

\* C27: for a credit account the re-signing step negates a transaction only
\* if its amount is positive and its name holds one of the two payment
\* texts; after the step every transaction with such a name has an amount
\* that is not positive, and the amount of every other one is unchanged
C27_ReSignsPayments ==
    (rsResult # <<>> /\ IsCreditAccount) =>
        /\ Len(rsResult) = Len(rsTransactions)
        /\ \A i \in 1..Len(rsTransactions) :
              /\ rsResult[i].amount # rsTransactions[i].amount =>
                    /\ rsTransactions[i].amount > 0
                    /\ HasPaymentName(rsTransactions[i])
                    /\ rsResult[i].amount = 0 - rsTransactions[i].amount
              /\ HasPaymentName(rsTransactions[i]) => rsResult[i].amount <= 0
              /\ ~HasPaymentName(rsTransactions[i]) =>
                    rsResult[i].amount = rsTransactions[i].amount

-----------------------------------------------------------------------------
(* The totals of the dashboard (checked under SpecWorth) *)

\* the current balances of the accounts of the types given, summed
RECURSIVE BalanceOfTypes(_, _)
BalanceOfTypes(accounts, types) ==
    IF accounts = <<>> THEN 0
    ELSE (IF Head(accounts).type \in types THEN CurrentOrZero(Head(accounts)) ELSE 0)
         + BalanceOfTypes(Tail(accounts), types)

\* C28: for every account list, Total Net Worth is Total Cash & Investments
\* (the current balances of the depository and investment accounts) minus
\* the current balances of the credit and loan accounts; the accounts of any
\* other type add nothing to either total
C28_NetWorth ==
    /\ cashAndInvestmentsBalance = BalanceOfTypes(allAccounts, {"depository", "investment"})
    /\ totalBalance = cashAndInvestmentsBalance
                        - BalanceOfTypes(allAccounts, {"credit", "loan"})

-----------------------------------------------------------------------------
(* The boundary and the displayed account (checked under SpecStale) *)

\* C29: the boundary in effect while an account is displayed derives from
\* responses for that account only: a response for an account opened before,
\* handled after the view was closed and opened on another account, never
\* sets the boundary
C29_BoundaryOfDisplayedAccount ==
    [][\A q \in inflight, probeFails \in BOOLEAN :
          (FetchDataSucceeds(q, probeFails) /\ isOpen /\ q.accountId # accountId)
              => earliestKnownDate' = earliestKnownDate]_vars

-----------------------------------------------------------------------------
(* The loading flag after a link attempt (checked under SpecDashboardLive) *)

LinkAttemptPending == \E op \in dashInflight : op.kind = "link"

\* C30: after every link attempt the loading flag of the dashboard
\* eventually returns to false, whether the exchange fails, yields a new
\* token, or yields a token of the list (the list then stays as it is)
C30_LoadingReturns == LinkAttemptPending ~> ~dashLoading

====
